---- MODULE Spec2Model ----
(***************************************************************************)
(* A model of the routing-and-fallback core of the Majd gateway:           *)
(*   - TaskRouter (src/backend/taskRouter.js): task classification and     *)
(*     platform selection;                                                 *)
(*   - OrchestrationLayer (src/backend/gemini.js, second half):            *)
(*     processRequest / handleFallback;                                    *)
(*   - PlatformOrchestrator (src/backend/src/platforms/index.js):          *)
(*     routeRequest / _selectPlatform / _handleFallback.                   *)
(* Strings that the code inspects character by character (user input) are  *)
(* sequences of one-character strings; names (platforms, task types) are   *)
(* TLA+ strings.  JavaScript's undefined is the string Undefined.          *)
(***************************************************************************)
EXTENDS Integers, Sequences, FiniteSets, TLC

Undefined == "undefined"

(* JavaScript truthiness of a string-or-undefined value. *)
Truthy(v) == v # Undefined /\ v # ""

(***************************************************************************)
(* String helpers (String.prototype.includes / toLowerCase).               *)
(***************************************************************************)
UpperToLower ==
    [c \in {"A","B","C","D","E","F","G","H","I","J","K","L","M","N","O","P","Q",
            "R","S","T","U","V","W","X","Y","Z"} |->
       CASE c = "A" -> "a" [] c = "B" -> "b" [] c = "C" -> "c" [] c = "D" -> "d"
         [] c = "E" -> "e" [] c = "F" -> "f" [] c = "G" -> "g" [] c = "H" -> "h"
         [] c = "I" -> "i" [] c = "J" -> "j" [] c = "K" -> "k" [] c = "L" -> "l"
         [] c = "M" -> "m" [] c = "N" -> "n" [] c = "O" -> "o" [] c = "P" -> "p"
         [] c = "Q" -> "q" [] c = "R" -> "r" [] c = "S" -> "s" [] c = "T" -> "t"
         [] c = "U" -> "u" [] c = "V" -> "v" [] c = "W" -> "w" [] c = "X" -> "x"
         [] c = "Y" -> "y" [] c = "Z" -> "z"]

toLowerCase(s) ==
    [i \in 1..Len(s) |-> IF s[i] \in DOMAIN UpperToLower THEN UpperToLower[s[i]] ELSE s[i]]

includes(s, sub) ==
    \E i \in 1..(Len(s) - Len(sub) + 1) : SubSeq(s, i, i + Len(sub) - 1) = sub

(* Characters that a TLA+ string literal cannot hold are named. *)
Backtick == "BACKTICK"
Newline == "NEWLINE"

LowerLetters ==
    {"a","b","c","d","e","f","g","h","i","j","k","l","m","n","o","p","q",
     "r","s","t","u","v","w","x","y","z"}

(* The code-block test of ruleBasedClassification: three backticks, then any  *)
(* number of lower-case letters, then a newline.                              *)
matchesCodeBlockMarker(s) ==
    \E i \in 1..Len(s) : \E j \in (i + 3)..Len(s) :
        /\ SubSeq(s, i, i + 2) = <<Backtick,Backtick,Backtick>>
        /\ \A k \in (i + 3)..(j - 1) : s[k] \in LowerLetters
        /\ s[j] = Newline

(***************************************************************************)
(* User inputs the model draws from.                                       *)
(***************************************************************************)
UserInputs ==
    { 
      <<"p","l","e","a","s","e"," ","d","e","b","u","g"," ","t","h","i","s">>,
      <<"W","r","i","t","e"," ","a"," ","f","u","n","c","t","i","o","n"," ","t","o"," ","r","e","v","e","r","s","e"," ","a"," ","s","t","r","i","n","g">>,
      <<"w","r","i","t","e"," ","a"," ","p","o","e","m">>,
      <<"W","h","a","t"," ","i","s"," ","a"," ","s","t","o","r","y">>,
      <<"s","o","l","v","e"," ","t","h","e"," ","c","h","a","r","t">>,
      <<"a","n","a","l","y","z","e"," ","t","h","i","s"," ","i","n","d","u","s","t","r","y">>,
      <<"e","x","p","e","r","t"," ","a","d","v","i","c","e">>,
      <<"h","e","l","l","o"," ","t","h","e","r","e">>,
      <<"D","e","c","o","d","e"," ","i","t">>,
      <<Backtick,Backtick,Backtick,"j","s",Newline,"l","e","t"," ","x">>,
      <<Backtick,Backtick,Backtick," ","t","e","l","l"," ","m","e"," ","a","b","o","u","t">> }

(***************************************************************************)
(* TaskRouter: keyword lists of ruleBasedClassification.                   *)
(***************************************************************************)
codeKeywords ==
    { 
      <<"c","o","d","e">>,
      <<"f","u","n","c","t","i","o","n">>,
      <<"p","r","o","g","r","a","m","m","i","n","g">>,
      <<"d","e","b","u","g">>,
      <<"a","l","g","o","r","i","t","h","m">> }

researchKeywords ==
    { 
      <<"r","e","s","e","a","r","c","h">>,
      <<"f","i","n","d"," ","i","n","f","o","r","m","a","t","i","o","n">>,
      <<"s","e","a","r","c","h"," ","f","o","r">>,
      <<"l","o","o","k"," ","u","p">>,
      <<"w","h","a","t"," ","i","s">>,
      <<"t","e","l","l"," ","m","e"," ","a","b","o","u","t">> }

reasoningKeywords ==
    { 
      <<"s","o","l","v","e">>,
      <<"c","a","l","c","u","l","a","t","e">>,
      <<"m","a","t","h">>,
      <<"l","o","g","i","c">>,
      <<"p","r","o","v","e">>,
      <<"e","x","p","l","a","i","n"," ","w","h","y">> }

creativeKeywords ==
    { 
      <<"w","r","i","t","e"," ","a">>,
      <<"c","r","e","a","t","e"," ","a">>,
      <<"g","e","n","e","r","a","t","e"," ","a">>,
      <<"d","e","s","i","g","n">>,
      <<"s","t","o","r","y">>,
      <<"p","o","e","m">> }

dataAnalysisKeywords ==
    { 
      <<"a","n","a","l","y","z","e">>,
      <<"d","a","t","a">>,
      <<"t","r","e","n","d","s">>,
      <<"s","t","a","t","i","s","t","i","c","s">>,
      <<"g","r","a","p","h">>,
      <<"c","h","a","r","t">> }

domainExpertiseKeywords ==
    { 
      <<"i","n","d","u","s","t","r","y">>,
      <<"s","e","c","t","o","r">>,
      <<"s","p","e","c","i","a","l","i","z","e","d">>,
      <<"e","x","p","e","r","t">>,
      <<"p","r","o","f","e","s","s","i","o","n","a","l">> }

(***************************************************************************)
(* TaskRouter (src/backend/taskRouter.js).                                 *)
(***************************************************************************)
taskTypes ==
    {"research", "reasoning", "code", "creative", "data_analysis",
     "domain_expertise", "general"}

platformMapping ==
    [t \in taskTypes |->
       CASE t = "research"         -> [primary |-> "perplexity", secondary |-> "gemini",   fallback |-> "local"]
         [] t = "reasoning"        -> [primary |-> "deepseek",   secondary |-> "gemini",   fallback |-> "local"]
         [] t = "code"             -> [primary |-> "copilot",    secondary |-> "deepseek", fallback |-> "local"]
         [] t = "creative"         -> [primary |-> "chatgpt",    secondary |-> "gemini",   fallback |-> "local"]
         [] t = "data_analysis"    -> [primary |-> "grok3",      secondary |-> "gemini",   fallback |-> "local"]
         [] t = "domain_expertise" -> [primary |-> "vertix",     secondary |-> "chatgpt",  fallback |-> "local"]
         [] t = "general"          -> [primary |-> "chatgpt",    secondary |-> "deepseek", fallback |-> "local"]]

anyIncluded(input, keywords) == \E kw \in keywords : includes(input, kw)

(* The rule engine: the first matching rule in the order of the source. *)
ruleBasedClassification(userInput) ==
    LET input == toLowerCase(userInput) IN
    IF anyIncluded(input, codeKeywords) \/ matchesCodeBlockMarker(input) THEN "code"
    ELSE IF anyIncluded(input, researchKeywords) THEN "research"
    ELSE IF anyIncluded(input, reasoningKeywords) THEN "reasoning"
    ELSE IF anyIncluded(input, creativeKeywords) THEN "creative"
    ELSE IF anyIncluded(input, dataAnalysisKeywords) THEN "data_analysis"
    ELSE IF anyIncluded(input, domainExpertiseKeywords) THEN "domain_expertise"
    ELSE "general"

(* Variant of exceedsThreshold: >= in place of >. *)
exceedsThreshold_AtLeast(confidence, threshold) ==
    threshold.defined /\ confidence >= threshold.value

(* mlClassification.confidence > config.ML_CONFIDENCE_THRESHOLD; a comparison *)
(* with undefined is false in JavaScript.  Confidence is in percent.          *)
exceedsThreshold(confidence, threshold) ==
    threshold.defined /\ confidence > threshold.value

(* What classifier.classify may do: throw, or report a task type and a       *)
(* confidence.  "math" is a task type outside the TaskRouter's enumeration.  *)
MLNotCalled == [kind |-> "not_called", taskType |-> Undefined, confidence |-> 0]
MLThrows    == [kind |-> "throw", taskType |-> Undefined, confidence |-> 0]
MLOutcomes ==
    {MLThrows} \cup
    [kind : {"ok"}, taskType : {"research", "code", "math"}, confidence : {30, 70, 95}]

(* classifyTask: ml is the outcome of classifier.classify when it is called. *)
classifyTask(userInput, isInitialized, ml, threshold) ==
    IF isInitialized /\ ml.kind = "throw"
      THEN "general"                                   \* catch (error)
    ELSE IF isInitialized /\ exceedsThreshold(ml.confidence, threshold)
      THEN ml.taskType
    ELSE ruleBasedClassification(userInput)

(* Variant of getPlatformForTask: cost optimization tested before the user's *)
(* preferred platform.                                                       *)
getPlatformForTask_CostFirst(taskType, options) ==
    LET platformMap == IF taskType \in DOMAIN platformMapping
                         THEN platformMapping[taskType]
                         ELSE platformMapping["general"]
    IN
    IF options.optimizeCost /\ ~options.isPremiumUser
      THEN [platform |-> platformMap.fallback, taskType |-> taskType,
            secondary |-> Undefined, fallback |-> Undefined,
            isUserPreferred |-> FALSE, isCostOptimized |-> TRUE]
    ELSE IF Truthy(options.preferredPlatform)
      THEN [platform |-> options.preferredPlatform, taskType |-> taskType,
            secondary |-> Undefined, fallback |-> Undefined,
            isUserPreferred |-> TRUE, isCostOptimized |-> FALSE]
    ELSE [platform |-> platformMap.primary, taskType |-> taskType,
          secondary |-> platformMap.secondary, fallback |-> platformMap.fallback,
          isUserPreferred |-> FALSE, isCostOptimized |-> FALSE]

getPlatformForTask(taskType, options) ==
    LET platformMap == IF taskType \in DOMAIN platformMapping
                         THEN platformMapping[taskType]
                         ELSE platformMapping["general"]
    IN
    IF Truthy(options.preferredPlatform)
      THEN [platform |-> options.preferredPlatform, taskType |-> taskType,
            secondary |-> Undefined, fallback |-> Undefined,
            isUserPreferred |-> TRUE, isCostOptimized |-> FALSE]
    ELSE IF options.optimizeCost /\ ~options.isPremiumUser
      THEN [platform |-> platformMap.fallback, taskType |-> taskType,
            secondary |-> Undefined, fallback |-> Undefined,
            isUserPreferred |-> FALSE, isCostOptimized |-> TRUE]
    ELSE [platform |-> platformMap.primary, taskType |-> taskType,
          secondary |-> platformMap.secondary, fallback |-> platformMap.fallback,
          isUserPreferred |-> FALSE, isCostOptimized |-> FALSE]

(* The RoutingDecision that TaskRouter.routeRequest builds from platformInfo. *)
routingDecision(userInput, platformInfo) ==
    [userInput |-> userInput, taskType |-> platformInfo.taskType,
     platform |-> platformInfo.platform, secondary |-> platformInfo.secondary,
     fallback |-> platformInfo.fallback]

(* TaskRouter.routeRequest as one step (classifyTask and getPlatformForTask  *)
(* do not throw, so the catch's default routing is never produced).         *)
taskRouter_routeRequest(userInput, options, isInitialized, ml, threshold) ==
    routingDecision(userInput,
        getPlatformForTask(classifyTask(userInput, isInitialized, ml, threshold), options))

NoPlatformInfo ==
    [platform |-> Undefined, taskType |-> Undefined, secondary |-> Undefined,
     fallback |-> Undefined, isUserPreferred |-> FALSE, isCostOptimized |-> FALSE]

NoDecision ==
    [userInput |-> <<>>, taskType |-> Undefined, platform |-> Undefined,
     secondary |-> Undefined, fallback |-> Undefined]

(***************************************************************************)
(* Configuration (config.ML_CONFIDENCE_THRESHOLD, config.features).  The   *)
(* shipped config module defines no ML_CONFIDENCE_THRESHOLD (undefined);   *)
(* a deployment may set one.                                               *)
(***************************************************************************)
ThresholdUndefined == [defined |-> FALSE, value |-> 0]
Thresholds == {ThresholdUndefined, [defined |-> TRUE, value |-> 70]}

Configs ==
    [ML_CONFIDENCE_THRESHOLD : Thresholds,
     enableLocalModels : BOOLEAN, enableFallbackChain : BOOLEAN]

(* Options a caller may pass (the request body's options object). *)
PreferredPlatforms == {Undefined, "gemini", "foo"}

Options ==
    [preferredPlatform : PreferredPlatforms,
     optimizeCost : BOOLEAN, isPremiumUser : BOOLEAN,
     enableFallback : BOOLEAN, isFallback : BOOLEAN,
     isFallbackSecondary : BOOLEAN, overridePlatform : {Undefined}]


(***************************************************************************)
(* PlatformOrchestrator (src/backend/src/platforms/index.js): values.      *)
(***************************************************************************)
(* The keys of this.platforms. *)
platforms ==
    {"chatgpt", "perplexity", "gemini", "copilot", "deepseek", "grok3", "vertix", "local"}

platformPriorities ==
    [d \in {"default", "code", "research", "math", "creative", "visual", "arabic"} |->
       CASE d = "default"  -> <<"chatgpt", "perplexity", "gemini", "deepseek", "grok3", "vertix", "copilot", "local">>
         [] d = "code"     -> <<"copilot", "deepseek", "chatgpt", "perplexity", "gemini", "grok3", "vertix", "local">>
         [] d = "research" -> <<"perplexity", "gemini", "chatgpt", "grok3", "deepseek", "vertix", "copilot", "local">>
         [] d = "math"     -> <<"deepseek", "gemini", "chatgpt", "perplexity", "grok3", "vertix", "copilot", "local">>
         [] d = "creative" -> <<"chatgpt", "gemini", "perplexity", "grok3", "deepseek", "vertix", "copilot", "local">>
         [] d = "visual"   -> <<"gemini", "grok3", "chatgpt", "perplexity", "deepseek", "vertix", "copilot", "local">>
         [] d = "arabic"   -> <<"chatgpt", "gemini", "perplexity", "deepseek", "grok3", "vertix", "copilot", "local">>]

(* this.platformPriorities[domain] || this.platformPriorities.default *)
priorityListFor(domain) ==
    IF domain \in DOMAIN platformPriorities THEN platformPriorities[domain]
                                            ELSE platformPriorities["default"]

Digits == {"0","1","2","3","4","5","6","7","8","9"}
(* \w of a regular expression. *)
WordChars == LowerLetters \cup DOMAIN UpperToLower \cup Digits \cup {"_"}
(* Characters in the range U+0600..U+06FF that the messages use. *)
ArabicChars == {"U+0645", "U+0631"}

(* /\b(kw)\b/i matched against s: kw, ignoring case, not touching a word   *)
(* character on either side.                                               *)
matchesWord(s, kw) ==
    \E i \in 1..(Len(s) - Len(kw) + 1) :
        /\ SubSeq(toLowerCase(s), i, i + Len(kw) - 1) = kw
        /\ i = 1 \/ s[i - 1] \notin WordChars
        /\ i + Len(kw) - 1 = Len(s) \/ s[i + Len(kw)] \notin WordChars

matchesAnyWord(s, keywords) == \E kw \in keywords : matchesWord(s, kw)

codeWords ==
    {<<"c","o","d","e">>,
     <<"f","u","n","c","t","i","o","n">>,
     <<"c","l","a","s","s">>,
     <<"m","e","t","h","o","d">>,
     <<"a","p","i">>}
researchWords ==
    {<<"r","e","s","e","a","r","c","h">>,
     <<"s","t","u","d","y">>,
     <<"p","a","p","e","r">>,
     <<"a","n","a","l","y","s","i","s">>,
     <<"i","n","v","e","s","t","i","g","a","t","e">>}
mathWords ==
    {<<"m","a","t","h">>,
     <<"e","q","u","a","t","i","o","n">>,
     <<"c","a","l","c","u","l","a","t","e">>,
     <<"f","o","r","m","u","l","a">>,
     <<"c","o","m","p","u","t","a","t","i","o","n">>}
creativeWords ==
    {<<"s","t","o","r","y">>,
     <<"c","r","e","a","t","i","v","e">>,
     <<"w","r","i","t","e">>,
     <<"p","o","e","m">>,
     <<"n","o","v","e","l">>,
     <<"f","i","c","t","i","o","n">>}
visualWords ==
    {<<"i","m","a","g","e">>,
     <<"p","i","c","t","u","r","e">>,
     <<"d","i","a","g","r","a","m">>,
     <<"c","h","a","r","t">>,
     <<"v","i","s","u","a","l">>}

(* Messages of the platform orchestrator's runs. *)
POMessages ==
    {<<"f","i","x"," ","m","y"," ","c","o","d","e">>,
     <<"e","n","c","o","d","e"," ","t","h","i","s">>,
     <<"S","t","u","d","y"," ","t","h","e"," ","c","h","a","r","t">>,
     <<"c","a","l","c","u","l","a","t","e"," ","i","t">>,
     <<"d","r","a","w"," ","a"," ","d","i","a","g","r","a","m">>,
     <<"U+0645","U+0631"," ","c","o","d","e">>,
     <<"h","e","l","l","o">>,
     <<Backtick,Backtick,Backtick,"x">>,
     <<"a"," ","P","o","e","m">>}

InSeq(x, s) == \E i \in 1..Len(s) : s[i] = x

(* _analyzeRequest: task type and domain from the options, else from the   *)
(* message's content; a message with Arabic characters gets domain arabic. *)
_analyzeRequest(message, opts) ==
    LET taskType0 == IF Truthy(opts.taskType) THEN opts.taskType ELSE "general"
        domain0   == IF Truthy(opts.domain) THEN opts.domain ELSE "default"
        detected ==
            IF includes(message, <<Backtick, Backtick, Backtick>>) \/ matchesAnyWord(message, codeWords)
              THEN [taskType |-> "code", domain |-> "code"]
            ELSE IF matchesAnyWord(message, researchWords)
              THEN [taskType |-> "research", domain |-> "research"]
            ELSE IF matchesAnyWord(message, mathWords)
              THEN [taskType |-> "math", domain |-> "math"]
            ELSE IF matchesAnyWord(message, creativeWords)
              THEN [taskType |-> "creative", domain |-> "creative"]
            ELSE IF matchesAnyWord(message, visualWords)
              THEN [taskType |-> "visual", domain |-> "visual"]
            ELSE [taskType |-> taskType0, domain |-> domain0]
    IN IF Truthy(opts.taskType)
         THEN [taskType |-> taskType0, domain |-> domain0]
         ELSE IF \E i \in 1..Len(message) : message[i] \in ArabicChars
                THEN [taskType |-> detected.taskType, domain |-> "arabic"]
                ELSE detected

(* Variant of _isPlatformAvailable: the enableLocalModels flag is not read. *)
_isPlatformAvailable_IgnoreLocalFlag(platformName, cfg) ==
    platformName \in platforms

_isPlatformAvailable(platformName, cfg) ==
    /\ platformName \in platforms
    /\ ~(platformName = "local" /\ ~cfg.enableLocalModels)

(* _selectPlatform: the platform's name, or Undefined when it throws        *)
(* 'No available platforms for request'.                                    *)
_selectPlatform(taskType, domain, opts, cfg) ==
    IF Truthy(opts.platform) /\ opts.platform \in platforms
      THEN opts.platform
      ELSE LET priorityList == priorityListFor(domain)
               availablePlatforms ==
                   SelectSeq(priorityList,
                       LAMBDA p : ~InSeq(p, opts.attemptedPlatforms) /\ _isPlatformAvailable(p, cfg))
           IN IF Len(availablePlatforms) = 0 THEN Undefined ELSE availablePlatforms[1]

(* Variant of canTryFallback: platforms already attempted are not skipped. *)
canTryFallback_NoAttemptedCheck(fallbackPlatform, attemptedPlatforms, cfg) ==
    _isPlatformAvailable(fallbackPlatform, cfg)

(* The test of both fallback loops of _handleFallback. *)
canTryFallback(fallbackPlatform, attemptedPlatforms, cfg) ==
    ~InSeq(fallbackPlatform, attemptedPlatforms) /\ _isPlatformAvailable(fallbackPlatform, cfg)

NoResult ==
    [error |-> FALSE, platform |-> Undefined, message |-> Undefined,
     fallbackRecommendation |-> <<>>, fallbackFrom |-> Undefined,
     fallbackAttempted |-> FALSE, attemptedPlatforms |-> <<>>]

(* What a platform's processRequest may do: return a result, return an     *)
(* error result (with the platform name the connector reports and a        *)
(* fallbackRecommendation), or throw.                                      *)
FallbackRecommendations ==
    { <<>>,
      <<"Perplexity", "Gemini", "DeepSeek">>,
      <<"gemini", "deepseek">>,
      <<"local", "gemini", "gemini">>,
      <<"chatgpt", "perplexity">> }

PlatformOutcomes ==
    [kind : {"ok", "throw"}, platform : {Undefined}, recommendation : {<<>>}] \cup
    [kind : {"error"}, platform : {"ChatGPT"}, recommendation : FallbackRecommendations]

(* _processWithPlatform: the result for a platform's outcome. *)
_processWithPlatform(platformName, outcome) ==
    IF platformName \notin platforms \/ outcome.kind = "throw"
      THEN [NoResult EXCEPT !.error = TRUE, !.platform = platformName, !.message = "thrown"]
    ELSE [NoResult EXCEPT
            !.error = (outcome.kind = "error"),
            !.platform = IF Truthy(outcome.platform) THEN outcome.platform ELSE platformName,
            !.message = IF outcome.kind = "error" THEN "failed" ELSE Undefined,
            !.fallbackRecommendation = outcome.recommendation]

(* The error result of routeRequest's catch block. *)
orchestrationFailed ==
    [NoResult EXCEPT !.error = TRUE, !.message = "Platform orchestration failed"]

(* Options a caller may pass to PlatformOrchestrator.routeRequest. *)
AttemptedLists ==
    { <<>>,
      <<"chatgpt">>,
      <<"copilot", "copilot">>,
      <<"chatgpt", "perplexity", "gemini", "deepseek", "grok3", "vertix", "copilot">>,
      <<"chatgpt", "perplexity", "gemini", "deepseek", "grok3", "vertix", "copilot", "local">> }

POOptions ==
    [platform : {Undefined, "gemini", "local", "foo"},
     taskType : {Undefined, "code"},
     domain : {Undefined, "code", "legal"},
     attemptedPlatforms : AttemptedLists]

NoPOOptions ==
    [platform |-> Undefined, taskType |-> Undefined, domain |-> Undefined,
     attemptedPlatforms |-> <<>>]


(***************************************************************************)
(* ContextManager.  A text is kept with the number of pieces               *)
(* text.split(/\s+/) cuts it into; the empty text has words = 0.           *)
(***************************************************************************)
Text(content, words) == [content |-> content, words |-> words]
EmptyText == Text("", 0)

Turn(userInput, aiResponse) ==
    [userInput |-> userInput, aiResponse |-> aiResponse, isSystemMessage |-> FALSE]

(* The turn mergeAndOptimizeContext puts in front of the relevant history. *)
separatorTurn ==
    [userInput |-> EmptyText,
     aiResponse |-> Text("--- Relevant past conversations ---", 5),
     isSystemMessage |-> TRUE]

contextWindowSizes ==
    [p \in {"chatgpt", "perplexity", "gemini", "copilot", "deepseek", "grok3", "vertix", "local"} |->
        CASE p = "chatgpt" -> 128000
          [] p = "perplexity" -> 32000
          [] p = "gemini" -> 1000000
          [] p = "copilot" -> 64000
          [] p = "deepseek" -> 128000
          [] p = "grok3" -> 128000
          [] p = "vertix" -> 32000
          [] p = "local" -> 32000]

(* this.contextWindowSizes[platform] || 32000, platform = options.platform || 'chatgpt' *)
contextWindowSizeFor(platformOption) ==
    LET platform == IF Truthy(platformOption) THEN platformOption ELSE "chatgpt"
    IN IF platform \in DOMAIN contextWindowSizes THEN contextWindowSizes[platform] ELSE 32000

(* estimateTokens, in tenths of a token: pieces * 1.3, and 0 for no text. *)
estimateTokens(text) == IF text.words = 0 THEN 0 ELSE text.words * 13

turnTokensOf(turn) == estimateTokens(turn.userInput) + estimateTokens(turn.aiResponse)

(* Variant of wouldExceed: the whole window is the limit. *)
wouldExceed_FullWindow(totalTokens, turnTokens, contextWindowSize) ==
    totalTokens + turnTokens > contextWindowSize * 10

(* totalTokens + turnTokens > contextWindowSize * 0.9, in tenths. *)
wouldExceed(totalTokens, turnTokens, contextWindowSize) ==
    totalTokens + turnTokens > contextWindowSize * 9

(* The loop of optimizeContext from index i down, with the turns kept so far. *)
RECURSIVE optimizeFrom(_, _, _, _, _)
optimizeFrom(context, i, totalTokens, optimizedContext, contextWindowSize) ==
    IF i < 1 THEN optimizedContext
    ELSE IF wouldExceed(totalTokens, turnTokensOf(context[i]), contextWindowSize)
      THEN optimizedContext
      ELSE optimizeFrom(context, i - 1, totalTokens + turnTokensOf(context[i]),
                        <<context[i]>> \o optimizedContext, contextWindowSize)

optimizeContext(context, contextWindowSize) ==
    optimizeFrom(context, Len(context), 0, <<>>, contextWindowSize)

mergeAndOptimizeContext(recentContext, relevantHistory, contextWindowSize) ==
    LET combinedContext ==
            recentContext \o (IF Len(relevantHistory) > 0 THEN <<separatorTurn>> ELSE <<>>)
                          \o relevantHistory
    IN optimizeContext(combinedContext, contextWindowSize)

(* Turns the vector database may hold: a short one, one without an answer, *)
(* a long one and a very long one.                                         *)
shortTurn == Turn(Text("q1", 3), Text("a1", 5))
unansweredTurn == Turn(Text("q2", 4), EmptyText)
longTurn == Turn(Text("q3", 2000), Text("a3", 8000))
veryLongTurn == Turn(Text("q4", 2), Text("a4", 20000))
StoredTurns == {shortTurn, unansweredTurn, longTurn, veryLongTurn}

MaxHistory == 3
MaxRelevant == 2

SeqsUpTo(S, n) == UNION {[1..k -> S] : k \in 0..n}

(* What vectorDb.getConversationHistory may return. *)
Histories == SeqsUpTo(StoredTurns, MaxHistory)

(* What vectorDb.searchSimilarConversations may return. *)
RelevantHistories == SeqsUpTo({shortTurn, longTurn}, MaxRelevant)

(* Window sizes optimizeContext is called with directly; for none of them  *)
(* can an estimate equal the limit but for the empty estimate.             *)
WindowSizes == {0, 11, 24, 32000, 64000}

CMOptions ==
    [platform : {Undefined, "perplexity", "gemini", "foo"},
     enableSemanticSearch : BOOLEAN,
     hasUserInput : BOOLEAN]

NoCMOptions == [platform |-> Undefined, enableSemanticSearch |-> FALSE, hasUserInput |-> FALSE]

(***************************************************************************)
(* Prompts.  The content of a message is a sequence of pieces: characters  *)
(* and named blocks of fixed text; template strings concatenate them.  A   *)
(* prompt keeps its list of messages (messages, or contents whose          *)
(* parts[0].text is the content) and the name of that list.                *)
(***************************************************************************)
Message(role, content) == [role |-> role, content |-> content]

(* The system message each formatter of ContextManager starts with. *)
platformSystemMessage(platform) ==
    CASE platform = "perplexity" -> <<"You are Majd, an advanced AI research assistant. ...">>
      [] platform = "gemini" -> <<"You are Majd, ... exceptional reasoning capabilities. ...">>
      [] platform = "copilot" -> <<"You are Majd, an advanced AI coding assistant. ...">>
      [] platform = "deepseek" -> <<"You are Majd, ... mathematical and reasoning capabilities. ...">>
      [] platform = "grok3" -> <<"You are Majd, ... real-time data analysis capabilities. ...">>
      [] platform = "vertix" -> <<"You are Majd, ... specialized domain expertise. ...">>
      [] platform = "local" -> <<"You are Majd, an advanced AI assistant. Provide helpful ...">>
      [] OTHER -> <<"You are Majd, ... combines the capabilities of multiple AI systems. ...">>

turnIsSystemMessage(turn) ==
    "isSystemMessage" \in DOMAIN turn /\ turn.isSystemMessage

(* The messages context.forEach pushes for the turns from index i on. *)
RECURSIVE turnMessages(_, _, _)
turnMessages(context, i, assistantRole) ==
    IF i > Len(context) THEN <<>>
    ELSE LET turn == context[i] IN
         (IF turnIsSystemMessage(turn)
            THEN <<Message("system", <<turn.aiResponse>>)>>
            ELSE <<Message("user", turn.userInput)>>
                 \o (IF Truthy(turn.aiResponse)
                       THEN <<Message(assistantRole, <<turn.aiResponse>>)>>
                       ELSE <<>>))
         \o turnMessages(context, i + 1, assistantRole)

(* formatContextForPlatform: every formatter pushes its system message and *)
(* then the turns; Gemini's list is contents and its answers have role     *)
(* model; an unknown platform is formatted as for ChatGPT.                 *)
formatContextForPlatform(context, platform) ==
    [list |-> IF platform = "gemini" THEN "contents" ELSE "messages",
     messages |-> <<Message("system", platformSystemMessage(platform))>>
                  \o turnMessages(context, 1, IF platform = "gemini" THEN "model" ELSE "assistant")]

reasoningSteps ==
    [PROBLEM_UNDERSTANDING |-> "problem_understanding",
     INFORMATION_GATHERING |-> "information_gathering",
     APPROACH_SELECTION |-> "approach_selection",
     STEP_BY_STEP_REASONING |-> "step_by_step_reasoning",
     VERIFICATION |-> "verification",
     CONCLUSION |-> "conclusion"]

taskTypeReasoningMap(taskType) ==
    CASE taskType = "research" ->
           <<"PROBLEM_UNDERSTANDING", "INFORMATION_GATHERING", "APPROACH_SELECTION",
             "STEP_BY_STEP_REASONING", "CONCLUSION">>
      [] taskType \in {"reasoning", "code"} ->
           <<"PROBLEM_UNDERSTANDING", "APPROACH_SELECTION", "STEP_BY_STEP_REASONING",
             "VERIFICATION", "CONCLUSION">>
      [] taskType = "data_analysis" ->
           <<"PROBLEM_UNDERSTANDING", "INFORMATION_GATHERING", "APPROACH_SELECTION",
             "STEP_BY_STEP_REASONING", "VERIFICATION", "CONCLUSION">>
      [] taskType = "domain_expertise" ->
           <<"PROBLEM_UNDERSTANDING", "INFORMATION_GATHERING", "APPROACH_SELECTION",
             "STEP_BY_STEP_REASONING", "CONCLUSION">>
      [] OTHER ->
           <<"PROBLEM_UNDERSTANDING", "APPROACH_SELECTION", "STEP_BY_STEP_REASONING",
             "CONCLUSION">>

(* generateSystemPrompt: basePrompt, the task's instructions, a space and  *)
(* the thinking style instructions.                                        *)
generateSystemPrompt(taskType) ==
    <<"You are Majd, ... shows explicit reasoning and thinking processes. ",
      CASE taskType = "research" -> "For this research task, ..."
        [] taskType = "reasoning" -> "For this reasoning task, ..."
        [] taskType = "code" -> "For this coding task, ..."
        [] taskType = "creative" -> "For this creative task, ..."
        [] taskType = "data_analysis" -> "For this data analysis task, ..."
        [] taskType = "domain_expertise" -> "For this domain-specific task, ..."
        [] OTHER -> "Break down your thinking process into clear steps, ...",
      " ",
      "Always make your reasoning explicit using a step-by-step approach. ...">>

(* generateThinkingPrompts; the user input it is given is not used. *)
generateThinkingPrompts(taskType) ==
    [systemPrompt |-> generateSystemPrompt(taskType),
     reasoningSteps |-> [i \in 1..Len(taskTypeReasoningMap(taskType)) |->
                            reasoningSteps[taskTypeReasoningMap(taskType)[i]]]]

(* generateThinkingInstructions: the reasoning-phase instructions, one     *)
(* piece for each reasoning step of the thinking prompts.                  *)
generateThinkingInstructions(thinkingPrompts) ==
    <<"Please show your reasoning using these steps:">> \o thinkingPrompts.reasoningSteps

(* messages.findIndex(msg => msg.role === role); 0 stands for -1. *)
findIndex(messages, role) ==
    IF \E i \in 1..Len(messages) : messages[i].role = role
      THEN CHOOSE i \in 1..Len(messages) :
             /\ messages[i].role = role
             /\ \A j \in 1..(i - 1) : messages[j].role # role
      ELSE 0

(* findLastIndex(messages, msg => msg.role === role); 0 stands for -1. *)
findLastIndex(messages, role) ==
    IF \E i \in 1..Len(messages) : messages[i].role = role
      THEN CHOOSE i \in 1..Len(messages) :
             /\ messages[i].role = role
             /\ \A j \in (i + 1)..Len(messages) : messages[j].role # role
      ELSE 0

(* The first half of every enhance...Prompt: the system message. *)
enhanceSystemMessage(messages, thinkingPrompts) ==
    LET systemMessageIndex == findIndex(messages, "system") IN
    IF systemMessageIndex >= 1
      THEN [messages EXCEPT ![systemMessageIndex].content =
                thinkingPrompts.systemPrompt \o <<" ">> \o @]
      ELSE <<Message("system", thinkingPrompts.systemPrompt)>> \o messages

(* The second half: the thinking instructions after the last user message. *)
enhanceLastUserMessage(messages, thinkingPrompts) ==
    LET lastUserMessageIndex == findLastIndex(messages, "user") IN
    IF lastUserMessageIndex >= 1
      THEN [messages EXCEPT ![lastUserMessageIndex].content =
                @ \o <<Newline, Newline>> \o generateThinkingInstructions(thinkingPrompts)]
      ELSE messages

(* enhancePromptWithThinking: the platform's enhance...Prompt works on the *)
(* prompt's list of messages; all of them apply the same two steps.        *)
enhancePromptWithThinking(platformPrompt, thinkingPrompts, platform) ==
    [platformPrompt EXCEPT !.messages =
        enhanceLastUserMessage(enhanceSystemMessage(@, thinkingPrompts), thinkingPrompts)]

NoPrompt == [list |-> "messages", messages |-> <<>>]

(* Contexts a base prompt is formatted from: no turn, an answered turn, an *)
(* unanswered turn after it, and a turn followed by the separator of the   *)
(* relevant history.                                                       *)
answeredTurn == [userInput |-> <<"h","i">>, aiResponse |-> "answer"]
openTurn == [userInput |-> <<"w","h","y">>, aiResponse |-> ""]
separatorMessageTurn ==
    [userInput |-> <<>>, aiResponse |-> "--- Relevant past conversations ---",
     isSystemMessage |-> TRUE]

PromptContexts ==
    { <<>>, <<answeredTurn>>, <<answeredTurn, openTurn>>,
      <<answeredTurn, separatorMessageTurn, answeredTurn>> }

(* Prompts enhancePromptWithThinking may be given that no formatter made. *)
OtherPrompts ==
    { [list |-> "messages", messages |-> <<>>],
      [list |-> "messages", messages |-> <<Message("user", <<"h","i">>)>>],
      [list |-> "messages", messages |-> <<Message("assistant", <<"answer">>)>>],
      [list |-> "messages",
       messages |-> <<Message("user", <<"h","i">>), Message("assistant", <<"answer">>),
                      Message("user", <<"w","h","y">>)>>] }

BasePromptsFor(platform) ==
    {formatContextForPlatform(c, platform) : c \in PromptContexts}
    \cup (IF platform = "gemini" THEN {} ELSE OtherPrompts)

ThinkingPlatforms == {"chatgpt", "gemini", "foo"}
ThinkingTaskTypes == {"code", "creative", "general"}

(***************************************************************************)
(* ResponseSynthesizer.  Raw responses are JavaScript values: null,        *)
(* undefined, a string, an object (its fields) or an array (its elements). *)
(* Thrown stands for a TypeError raised while a value is taken apart.      *)
(***************************************************************************)
JSNull == [t |-> "null"]
JSUndefined == [t |-> "undefined"]
JSString(s) == [t |-> "string", v |-> s]
JSObject(fields) == [t |-> "object", f |-> fields]
JSArray(elements) == [t |-> "array", e |-> elements]
Thrown == [t |-> "throw"]

(* value.name: a TypeError on null and undefined, undefined when absent. *)
Get(value, name) ==
    IF value.t \in {"null", "undefined", "throw"} THEN Thrown
    ELSE IF value.t = "object" /\ name \in DOMAIN value.f THEN value.f[name]
    ELSE JSUndefined

(* value[0] *)
First(value) ==
    IF value.t \in {"null", "undefined", "throw"} THEN Thrown
    ELSE IF value.t = "array" /\ Len(value.e) > 0 THEN value.e[1]
    ELSE JSUndefined

IsTruthy(value) ==
    /\ value.t \notin {"null", "undefined"}
    /\ ~(value.t = "string" /\ value.v = "")

(* value && value.length > 0 *)
NonEmptyList(value) ==
    value.t = "array" /\ Len(value.e) > 0

(* typeof response === 'string' ? response : JSON.stringify(response) *)
stringifyRaw(response) ==
    IF response.t = "string" THEN response
    ELSE IF response.t = "undefined" THEN JSUndefined
    ELSE [t |-> "string", v |-> "JSON.stringify", of |-> response]

(* extractChatGPTContent, extractCopilotContent, extractDeepSeekContent *)
extractChatGPTContent(response) ==
    LET choices == Get(response, "choices") IN
    IF choices = Thrown THEN Thrown
    ELSE IF NonEmptyList(choices) THEN Get(Get(First(choices), "message"), "content")
    ELSE stringifyRaw(response)

(* extractPerplexityContent (for answers without citations) *)
extractPerplexityContent(response) ==
    LET answer == Get(response, "answer") IN
    IF answer = Thrown THEN Thrown
    ELSE IF IsTruthy(answer) THEN Get(answer, "text")
    ELSE stringifyRaw(response)

extractGeminiContent(response) ==
    LET candidates == Get(response, "candidates") IN
    IF candidates = Thrown THEN Thrown
    ELSE IF NonEmptyList(candidates)
      THEN Get(First(Get(Get(First(candidates), "content"), "parts")), "text")
    ELSE stringifyRaw(response)

extractGrok3Content(response) ==
    LET output == Get(response, "output") IN
    IF output = Thrown THEN Thrown
    ELSE IF IsTruthy(output) /\ IsTruthy(Get(output, "content")) THEN Get(output, "content")
    ELSE stringifyRaw(response)

extractVertixContent(response) ==
    LET content == Get(response, "content") IN
    IF content = Thrown THEN Thrown
    ELSE IF IsTruthy(content) THEN content
    ELSE stringifyRaw(response)

extractLocalContent(response) ==
    LET output == Get(response, "output") IN
    IF output = Thrown THEN Thrown
    ELSE IF IsTruthy(output) THEN output
    ELSE stringifyRaw(response)

extractContent(response, platform) ==
    CASE platform \in {"chatgpt", "copilot", "deepseek"} -> extractChatGPTContent(response)
      [] platform = "perplexity" -> extractPerplexityContent(response)
      [] platform = "gemini" -> extractGeminiContent(response)
      [] platform = "grok3" -> extractGrok3Content(response)
      [] platform = "vertix" -> extractVertixContent(response)
      [] platform = "local" -> extractLocalContent(response)
      [] OTHER -> stringifyRaw(response)

(* Raw responses a provider may send. *)
RawResponses ==
    { JSNull,
      JSString("plain text"),
      JSObject([status |-> JSString("error")]),
      JSObject([choices |-> JSArray(<<>>)]),
      JSObject([choices |-> JSArray(<<JSObject([message |-> JSObject([content |-> JSString("answer")])])>>)]),
      JSObject([choices |-> JSArray(<<JSObject([finish_reason |-> JSString("length")])>>)]),
      JSObject([candidates |-> JSArray(<<JSObject([content |->
                   JSObject([parts |-> JSArray(<<JSObject([text |-> JSString("answer")])>>)])])>>)]),
      JSObject([candidates |-> JSArray(<<JSObject([finishReason |-> JSString("SAFETY")])>>)]),
      JSObject([answer |-> JSObject([text |-> JSString("answer")])]),
      JSObject([output |-> JSObject([content |-> JSString("answer")])]),
      JSObject([content |-> JSString("answer")]),
      JSObject([output |-> JSString("answer")]) }

SynthPlatforms ==
    {"chatgpt", "perplexity", "gemini", "copilot", "deepseek", "grok3", "vertix", "local", "foo"}

MergeErrorContent == "I encountered an issue merging the responses. Please try again."

(* A processed response as mergeResponses reads it. *)
Processed(content, platform, taskType, err) ==
    [content |-> content, error |-> err, platform |-> platform, taskType |-> taskType]

(* The list mergeResponses is given: missing (undefined or null), or a list. *)
MissingList == [missing |-> TRUE, list |-> <<>>]
GivenList(list) == [missing |-> FALSE, list |-> list]

(* mergeSequential / mergeBestFirst / mergeTaskSpecific: the contents of   *)
(* the responses, in order.                                                *)
mergeContents(list, mergeStrategy) ==
    [i \in 1..Len(list) |-> list[i].content]

(* mergeResponses: what the promise settles with. *)
mergeResponses(responses, mergeStrategy) ==
    IF responses.missing
      THEN (* the catch block reads responses[0] and throws again *)
           [rejected |-> TRUE, response |-> Processed(Undefined, Undefined, Undefined, "TypeError")]
    ELSE IF Len(responses.list) = 0
      THEN [rejected |-> FALSE,
            response |-> Processed(MergeErrorContent, "merged", "unknown", "No responses to merge")]
    ELSE IF Len(responses.list) = 1
      THEN [rejected |-> FALSE, response |-> responses.list[1]]
    ELSE [rejected |-> FALSE,
          response |-> [content |-> mergeContents(responses.list, mergeStrategy),
                        error |-> Undefined,
                        platform |-> "merged",
                        taskType |-> responses.list[1].taskType,
                        sources |-> [i \in 1..Len(responses.list) |->
                                        [platform |-> responses.list[i].platform,
                                         taskType |-> responses.list[i].taskType]]]]

MergeStrategies == {Undefined, "sequential", "best_first", "task_specific"}

goodResponse == Processed("answer", "chatgpt", "code", Undefined)
otherResponse == Processed("another answer", "gemini", "code", Undefined)
failedResponse ==
    Processed("I encountered an issue processing your request. Please try again.",
              Undefined, Undefined, "API error: timeout")

MergeInputs ==
    {MissingList} \cup
    {GivenList(l) : l \in { <<>>, <<goodResponse>>, <<failedResponse>>,
                            <<goodResponse, otherResponse>>,
                            <<failedResponse, otherResponse>>,
                            <<failedResponse, failedResponse>>,
                            <<goodResponse, otherResponse, failedResponse>> }}

(***************************************************************************)
(* generateStreamingResponse of the ChatGPT and DeepSeek adapters: the     *)
(* lines of the data chunks of the response stream.                        *)
(***************************************************************************)
(* A line of a chunk: whether its text includes the [DONE] marker, whether *)
(* JSON.parse accepts it, and the delta.content of each element of         *)
(* json.choices (the empty text when it is absent or empty).               *)
Line(hasDone, parses, choices) == [hasDone |-> hasDone, parses |-> parses, choices |-> choices]

ContentFrame(text) == Line(FALSE, TRUE, <<text>>)
RoleFrame == Line(FALSE, TRUE, << <<>> >>)
EmptyChoicesFrame == Line(FALSE, TRUE, <<>>)
PartialFrame == Line(FALSE, FALSE, <<>>)
DoneMarker == Line(TRUE, FALSE, <<>>)

(* The frame carries content: json.choices[0].delta.content is non-empty. *)
isContentBearing(line) ==
    line.parses /\ Len(line.choices) > 0 /\ Len(line.choices[1]) > 0

(* One iteration of the for loop over the lines of a chunk: the line is    *)
(* skipped, or parsing or reading it throws, or it gives a fragment, or    *)
(* it carries no content.                                                  *)
processLine(line) ==
    IF line.hasDone THEN [kind |-> "skip", text |-> <<>>]
    ELSE IF ~line.parses THEN [kind |-> "throw", text |-> <<>>]
    ELSE IF Len(line.choices) = 0 THEN [kind |-> "throw", text |-> <<>>]
    ELSE IF Len(line.choices[1]) > 0 THEN [kind |-> "content", text |-> line.choices[1]]
    ELSE [kind |-> "none", text |-> <<>>]

(* The 'data' handler from line i on: fullResponse and the fragments       *)
(* passed to onChunk.  A throw leaves the loop through the catch block     *)
(* that wraps it.                                                          *)
RECURSIVE onData(_, _, _, _, _)
onData(lines, i, fullResponse, calls, onChunkGiven) ==
    IF i > Len(lines) THEN [fullResponse |-> fullResponse, calls |-> calls]
    ELSE LET step == processLine(lines[i])
         IN CASE step.kind = "throw" -> [fullResponse |-> fullResponse, calls |-> calls]
              [] step.kind = "content" ->
                   onData(lines, i + 1, fullResponse \o step.text,
                          IF onChunkGiven THEN Append(calls, step.text) ELSE calls,
                          onChunkGiven)
              [] OTHER -> onData(lines, i + 1, fullResponse, calls, onChunkGiven)

(* The response the 'end' handler resolves with. *)
finalResponse(fullResponse) ==
    [state |-> "resolved", content |-> fullResponse,
     usage |-> [prompt_tokens |-> -1, completion_tokens |-> -1, total_tokens |-> -1]]

NoStreamResult == [state |-> "pending", content |-> <<>>, usage |-> Undefined]
StreamRejected == [state |-> "rejected", content |-> <<>>, usage |-> Undefined]

MaxLines == 2
MaxChunks == 2

StreamLines ==
    {ContentFrame(<<"a">>), ContentFrame(<<"b", "c">>), RoleFrame, EmptyChoicesFrame,
     PartialFrame, DoneMarker}

(* The chunks a stream may deliver: one or more lines each. *)
StreamChunks == UNION {[1..n -> StreamLines] : n \in 1..MaxLines}
Streams == UNION {[1..n -> StreamChunks] : n \in 0..MaxChunks}

(***************************************************************************)
(* ChatGPTConnector: processRequest and _executeWithRetry.                 *)
(***************************************************************************)
maxRetries == 3
retryDelay == 1000

(* error.response?.status of an error that carries no response. *)
NoStatus == 0

ConnectorError(status, message) == [status |-> status, message |-> message]
NoError == ConnectorError(NoStatus, Undefined)

(* Variant of _isRetryableError: every failure is retried. *)
_isRetryableError_Always(err) == TRUE

_isRetryableError(err) ==
    err.status = 429 \/ (err.status >= 500 /\ err.status < 600)

(* The wait after failed attempt number attempt. *)
retryWait(attempt) == retryDelay * 2 ^ (attempt - 1)

(* error.message.includes('content policy') *)
mentionsContentPolicy(message) == message = "Rejected by content policy"

_checkFallbackAvailability(opts, cfg) ==
    /\ cfg.enableFallbackChain
    /\ ~opts.noFallback
    /\ ~InSeq("ChatGPT", opts.attemptedPlatforms)

_suggestFallbackPlatform(err) ==
    IF err.status = 429 THEN <<"Gemini", "DeepSeek">>
    ELSE IF mentionsContentPolicy(err.message) THEN <<"Perplexity", "DeepSeek">>
    ELSE IF err.status >= 500 THEN <<"Perplexity", "Gemini">>
    ELSE <<"Perplexity", "Gemini", "DeepSeek">>

NoConnectorResult ==
    [error |-> FALSE, message |-> Undefined, platform |-> Undefined, status |-> NoStatus,
     fallbackAvailable |-> FALSE, fallbackRecommendation |-> <<>>]

(* The result _processResponse builds from a successful API response. *)
connectorSuccess == [NoConnectorResult EXCEPT !.platform = "ChatGPT", !.status = 200]

(* The error result of processRequest's catch block. *)
connectorErrorResult(err, opts, cfg) ==
    [error |-> TRUE,
     message |-> err.message,
     platform |-> "ChatGPT",
     status |-> IF err.status = NoStatus THEN 500 ELSE err.status,
     fallbackAvailable |-> _checkFallbackAvailability(opts, cfg),
     fallbackRecommendation |->
         IF cfg.enableFallbackChain /\ _checkFallbackAvailability(opts, cfg)
           THEN _suggestFallbackPlatform(err) ELSE <<>>]

MessageRequired == ConnectorError(NoStatus, "Message is required for ChatGPT processing")

(* The failures of one API call. *)
CallErrors ==
    {ConnectorError(s, "Request failed") : s \in {NoStatus, 400, 429, 499, 500, 599, 600}}
    \cup {ConnectorError(400, "Rejected by content policy")}

ConnectorOptions ==
    [noFallback : BOOLEAN, attemptedPlatforms : {<<>>, <<"ChatGPT">>, <<"chatgpt">>}]
NoConnectorOptions == [noFallback |-> FALSE, attemptedPlatforms |-> <<>>]
ConnectorMessages == {"", "hello"}
(***************************************************************************)
(* OrchestrationLayer (src/backend/gemini.js): values.                     *)
(***************************************************************************)
Providers ==
    {"chatgpt", "perplexity", "gemini", "copilot", "deepseek", "grok3", "vertix", "local"}

(* Variant of getPlatformModule: an unknown name gets the chatgpt module. *)
getPlatformModule_DefaultModule(platform) ==
    IF platform \in Providers THEN platform ELSE "chatgpt"

(* getPlatformModule: the module registered under the name, else undefined. *)
getPlatformModule(platform) ==
    IF platform \in Providers THEN platform ELSE Undefined

NumReq == 2
Req == 1..NumReq
Users == {"u1", "u2"}

(* Messages of the errors a provider's generateResponse throws. *)
ProviderErrors == {"API error: 401 Unauthorized", "API error: timeout"}
PlatformNotFound == "Platform module not found"
ContextReadFailed == "Context read failed"

(* Text a provider answers with. *)
ProviderContents == {"answer"}

GenericErrorContent ==
    "I encountered an issue processing your request. Please try again."
SynthesisErrorContent ==
    "I encountered an issue processing the response. Please try again."

NoResponse ==
    [content |-> Undefined, error |-> Undefined, platform |-> Undefined,
     taskType |-> Undefined]

(* ResponseSynthesizer.processResponse: the processed response, or the     *)
(* canned error response of its catch block when extraction/formatting     *)
(* throws (synthOk = FALSE).                                               *)
processResponse(platformResp, requestInfo, synthOk) ==
    IF synthOk
      THEN [content |-> platformResp, error |-> Undefined,
            platform |-> requestInfo.platform, taskType |-> requestInfo.taskType]
      ELSE [content |-> SynthesisErrorContent, error |-> "synthesis error",
            platform |-> requestInfo.platform, taskType |-> requestInfo.taskType]

(* Variant of errorResponse: the error field is left unset. *)
errorResponse_NoMessage(err) ==
    [content |-> GenericErrorContent, error |-> Undefined, platform |-> Undefined,
     taskType |-> Undefined]

(* The error response of processRequest's catch block. *)
errorResponse(err) ==
    [content |-> GenericErrorContent, error |-> err, platform |-> Undefined,
     taskType |-> Undefined]

(* Variant of shouldFallback: the isFallback mark is not consulted. *)
shouldFallback_IgnoreIsFallback(opts) == opts.enableFallback

(* The catch block's test: fallback unless disabled or already a fallback. *)
shouldFallback(opts) == opts.enableFallback /\ ~opts.isFallback

(* handleFallback: the options of the recursive processRequest call. *)
fallbackOptions(opts, routing) ==
    LET fallbackPlatform == IF opts.isFallbackSecondary THEN routing.fallback
                                                        ELSE routing.secondary
    IN [opts EXCEPT !.isFallback = TRUE,
                    !.isFallbackSecondary = ~opts.isFallbackSecondary,
                    !.overridePlatform = fallbackPlatform]

(* Variant of getConversationHistory: the history is read under one key,  *)
(* whoever the user is.                                                    *)
getConversationHistory_SharedKey(db, user) == db["u1"]

(* vectorDb.getConversationHistory(userId, ...): the history is keyed by   *)
(* the user's id.                                                          *)
getConversationHistory(db, user) == db[user]

(* Variant of getContext: a failing read is not caught. *)
getContext_NoCatch(history, readOk) ==
    [thrown |-> ~readOk, value |-> IF readOk THEN history ELSE <<>>]

(* ContextManager.getContext as processRequest sees it: the stored history, *)
(* or, when reading throws, the empty context of its catch block.          *)
getContext(history, readOk) ==
    [thrown |-> FALSE, value |-> IF readOk THEN history ELSE <<>>]

(* ContextManager.saveContext: the turn appended to the user's history. *)
conversationTurn(user, input, aiResponse, routing) ==
    [userId |-> user, userInput |-> input, aiResponse |-> aiResponse,
     platform |-> routing.platform, taskType |-> routing.taskType]

(* Variant of saveContext: the write replaces the user's history. *)
saveContext_Overwrite(history, turn, saveOk) ==
    IF saveOk THEN <<turn>> ELSE history

(* Variant of saveContext: the turn is kept although the write failed. *)
saveContext_KeepOnFailure(history, turn, saveOk) == Append(history, turn)

(* vectorDb.saveConversationTurn: the turn is appended to the user's log. *)
saveConversationTurn(history, turn) == Append(history, turn)

(* ContextManager.saveContext: the user's history after the call; a        *)
(* failing write is caught and the turn is dropped.                        *)
saveContext(history, turn, saveOk) ==
    IF saveOk THEN saveConversationTurn(history, turn) ELSE history

(* Entries of a request's log; a "call" entry keeps the options of the call. *)
Event(ev, platform) == [ev |-> ev, platform |-> platform]
(* The call of a platform module's generateResponse, with the prompt passed. *)
InvokeEvent(platform, prompt) == [ev |-> "invoke", platform |-> platform, prompt |-> prompt]
CallEvent(opts) == [ev |-> "call", platform |-> Undefined, opts |-> opts]

VARIABLES
    config,                 \* the config module
    classifierInitialized,  \* TaskRouter.classifier.isInitialized
    tr_pc, tr_userInput, tr_options, tr_ml, tr_taskType, tr_platformInfo, tr_decision,
    initialized,            \* OrchestrationLayer.initialized
    store,                  \* the vector database: user -> stored turns
    pc, userId, userInput, options, options0, routingInfo, context,
    platformResponse, processedResponse, error, result,
    log,                    \* per request: what happened, in order
    po_pc, po_message, po_options, po_analysis, po_platform, po_attempted,
    po_errorResult, po_recommended, po_index, po_invocations, po_result,
    cm_pc, cm_options, cm_window, cm_history, cm_optimized, cm_relevant, cm_result,
    te_pc, te_platform, te_taskType, te_base, te_once, te_twice,
    rs_pc, rs_platform, rs_raw, rs_extracted, rs_processed, rs_responses, rs_strategy, rs_merged,
    mp_pc, mp_platforms, mp_options, mp_index, mp_routingInfo, mp_responses, mp_result,
    sr_pc, sr_onChunkGiven, sr_pending, sr_frames, sr_fullResponse, sr_calls, sr_result,
    rt_pc, rt_message, rt_options, rt_attempt, rt_calls, rt_delays, rt_error, rt_result

routerVars == <<tr_pc, tr_userInput, tr_options, tr_ml, tr_taskType, tr_platformInfo, tr_decision>>
orchVars == <<initialized, store, pc, userId, userInput, options, options0, routingInfo,
              context, platformResponse, processedResponse, error, result, log>>
envVars == <<config, classifierInitialized>>
poVars == <<po_pc, po_message, po_options, po_analysis, po_platform, po_attempted,
            po_errorResult, po_recommended, po_index, po_invocations, po_result>>
cmVars == <<cm_pc, cm_options, cm_window, cm_history, cm_optimized, cm_relevant, cm_result>>
teVars == <<te_pc, te_platform, te_taskType, te_base, te_once, te_twice>>
rsVars == <<rs_pc, rs_platform, rs_raw, rs_extracted, rs_processed, rs_responses, rs_strategy, rs_merged>>
mpVars == <<mp_pc, mp_platforms, mp_options, mp_index, mp_routingInfo, mp_responses, mp_result>>
srVars == <<sr_pc, sr_onChunkGiven, sr_pending, sr_frames, sr_fullResponse, sr_calls, sr_result>>
rtVars == <<rt_pc, rt_message, rt_options, rt_attempt, rt_calls, rt_delays, rt_error, rt_result>>
restVars == <<cmVars, teVars, rsVars, mpVars, srVars, rtVars>>
vars == <<envVars, routerVars, orchVars, poVars, restVars>>

(* What the actions of one component leave unchanged. *)
outsideRouter == <<envVars, orchVars, poVars, restVars>>
outsideOrch == <<envVars, routerVars, poVars, restVars>>
outsidePO == <<envVars, routerVars, orchVars, restVars>>
outsideCM == <<envVars, routerVars, orchVars, poVars, teVars, rsVars, mpVars, srVars, rtVars>>
outsideTE == <<envVars, routerVars, orchVars, poVars, cmVars, rsVars, mpVars, srVars, rtVars>>
outsideRS == <<envVars, routerVars, orchVars, poVars, cmVars, teVars, mpVars, srVars, rtVars>>
outsideSR == <<envVars, routerVars, orchVars, poVars, cmVars, teVars, rsVars, mpVars, rtVars>>
outsideRT == <<envVars, routerVars, orchVars, poVars, cmVars, teVars, rsVars, mpVars, srVars>>
outsideMulti == <<envVars, routerVars, poVars, cmVars, teVars, rsVars, srVars, rtVars>>

(***************************************************************************)
(* TaskRouter.routeRequest, step by step.                                  *)
(***************************************************************************)
RouterIdle ==
    /\ tr_pc = "idle"
    /\ tr_userInput = <<>>
    /\ tr_options = CHOOSE o \in Options : TRUE
    /\ tr_ml = MLNotCalled
    /\ tr_taskType = Undefined
    /\ tr_platformInfo = NoPlatformInfo
    /\ tr_decision = NoDecision

OrchIdle ==
    /\ initialized = FALSE
    /\ store = [u \in Users |-> <<>>]
    /\ pc = [r \in Req |-> "idle"]
    /\ userId = [r \in Req |-> "u1"]
    /\ userInput = [r \in Req |-> <<>>]
    /\ options = [r \in Req |-> CHOOSE o \in Options : TRUE]
    /\ options0 = [r \in Req |-> CHOOSE o \in Options : TRUE]
    /\ routingInfo = [r \in Req |-> NoDecision]
    /\ context = [r \in Req |-> <<>>]
    /\ platformResponse = [r \in Req |-> Undefined]
    /\ processedResponse = [r \in Req |-> NoResponse]
    /\ error = [r \in Req |-> Undefined]
    /\ result = [r \in Req |-> NoResponse]
    /\ log = [r \in Req |-> <<>>]

CMIdle ==
    /\ cm_pc = "idle"
    /\ cm_options = NoCMOptions
    /\ cm_window = 0
    /\ cm_history = <<>>
    /\ cm_optimized = <<>>
    /\ cm_relevant = <<>>
    /\ cm_result = <<>>

TEIdle ==
    /\ te_pc = "idle"
    /\ te_platform = Undefined
    /\ te_taskType = Undefined
    /\ te_base = NoPrompt
    /\ te_once = NoPrompt
    /\ te_twice = NoPrompt

RSIdle ==
    /\ rs_pc = "idle"
    /\ rs_platform = Undefined
    /\ rs_raw = JSUndefined
    /\ rs_extracted = JSUndefined
    /\ rs_processed = NoResponse
    /\ rs_responses = MissingList
    /\ rs_strategy = Undefined
    /\ rs_merged = [rejected |-> FALSE, response |-> NoResponse]

(* No processMultiPlatformRequest call is in progress. *)
MPIdle ==
    /\ mp_pc = "idle"
    /\ mp_platforms = <<>>
    /\ mp_options = CHOOSE o \in Options : TRUE
    /\ mp_index = 0
    /\ mp_routingInfo = NoDecision
    /\ mp_responses = <<>>
    /\ mp_result = NoResponse

(* No generateStreamingResponse call is in progress. *)
SRIdle ==
    /\ sr_pc = "idle"
    /\ sr_onChunkGiven = FALSE
    /\ sr_pending = <<>>
    /\ sr_frames = <<>>
    /\ sr_fullResponse = <<>>
    /\ sr_calls = <<>>
    /\ sr_result = NoStreamResult

(* No connector request is in progress. *)
RTIdle ==
    /\ rt_pc = "idle"
    /\ rt_message = Undefined
    /\ rt_options = NoConnectorOptions
    /\ rt_attempt = 0
    /\ rt_calls = <<>>
    /\ rt_delays = <<>>
    /\ rt_error = NoError
    /\ rt_result = NoConnectorResult

(* The adapters and connectors are idle. *)
LaterIdle == SRIdle /\ RTIdle

(* The components added after the first three are idle. *)
RestIdle == CMIdle /\ TEIdle /\ RSIdle /\ MPIdle /\ LaterIdle

POIdle ==
    /\ po_pc = "idle"
    /\ po_message = <<>>
    /\ po_options = NoPOOptions
    /\ po_analysis = [taskType |-> Undefined, domain |-> Undefined]
    /\ po_platform = Undefined
    /\ po_attempted = <<>>
    /\ po_errorResult = NoResult
    /\ po_recommended = <<>>
    /\ po_index = 0
    /\ po_invocations = <<>>
    /\ po_result = NoResult

InitRouter ==
    /\ config \in {c \in Configs : ~c.enableLocalModels /\ ~c.enableFallbackChain}
    /\ classifierInitialized \in BOOLEAN
    /\ tr_pc = "classifyTask"
    /\ tr_userInput \in UserInputs
    /\ tr_options \in {o \in Options : o.enableFallback /\ ~o.isFallback /\ ~o.isFallbackSecondary}
    /\ tr_ml = MLNotCalled
    /\ tr_taskType = Undefined
    /\ tr_platformInfo = NoPlatformInfo
    /\ tr_decision = NoDecision
    /\ OrchIdle
    /\ POIdle
    /\ RestIdle

(* classifyTask: getContext, classifier.classify when initialized, rules. *)
TR_classifyTask ==
    /\ tr_pc = "classifyTask"
    /\ \E ml \in (IF classifierInitialized THEN MLOutcomes ELSE {MLNotCalled}) :
         /\ tr_ml' = ml
         /\ tr_taskType' = classifyTask(tr_userInput, classifierInitialized, ml,
                                        config.ML_CONFIDENCE_THRESHOLD)
    /\ tr_pc' = "getPlatformForTask"
    /\ UNCHANGED <<tr_userInput, tr_options, tr_platformInfo, tr_decision, outsideRouter>>

TR_getPlatformForTask ==
    /\ tr_pc = "getPlatformForTask"
    /\ tr_platformInfo' = getPlatformForTask(tr_taskType, tr_options)
    /\ tr_pc' = "return"
    /\ UNCHANGED <<tr_userInput, tr_options, tr_ml, tr_taskType, tr_decision, outsideRouter>>

TR_return ==
    /\ tr_pc = "return"
    /\ tr_decision' = routingDecision(tr_userInput, tr_platformInfo)
    /\ tr_pc' = "done"
    /\ UNCHANGED <<tr_userInput, tr_options, tr_ml, tr_taskType, tr_platformInfo, outsideRouter>>

NextRouter == TR_classifyTask \/ TR_getPlatformForTask \/ TR_return

SpecRouter == InitRouter /\ [][NextRouter]_vars

(* User inputs of the orchestration runs. *)
OrchInputs ==
    { 
      <<"p","l","e","a","s","e"," ","d","e","b","u","g"," ","t","h","i","s">>,
      <<"w","r","i","t","e"," ","a"," ","p","o","e","m">>,
      <<"h","e","l","l","o"," ","t","h","e","r","e">> }

(* Histories the vector database may hold for the user when a request      *)
(* arrives: none, or an earlier turn.                                      *)
StoredHistories ==
    { <<>>,
      <<conversationTurn("u1", <<"h","i">>, "answer",
                         [platform |-> "chatgpt", taskType |-> "general"])>> }

(***************************************************************************)
(* OrchestrationLayer.processRequest / handleFallback, one request r.      *)
(* handleFallback returns the promise of the recursive processRequest and  *)
(* processRequest returns the promise of handleFallback, so the recursion  *)
(* is a loop over the same request with new options.                       *)
(***************************************************************************)
Append1(f, r, e) == [f EXCEPT ![r] = Append(@, e)]

InitOrch ==
    /\ config \in {c \in Configs : ~c.enableLocalModels /\ ~c.enableFallbackChain}
    /\ classifierInitialized \in BOOLEAN
    /\ RouterIdle
    /\ POIdle
    /\ RestIdle
    /\ initialized \in BOOLEAN
    /\ store = [u \in Users |-> <<>>]
    /\ pc = [r \in Req |-> IF r = 1 THEN "processRequest" ELSE "idle"]
    /\ userId = [r \in Req |-> "u1"]
    /\ \E input \in OrchInputs : userInput = [r \in Req |-> IF r = 1 THEN input ELSE <<>>]
    /\ \E o \in Options :
         /\ options = [r \in Req |-> IF r = 1 THEN o ELSE CHOOSE x \in Options : TRUE]
         /\ options0 = options
    /\ routingInfo = [r \in Req |-> NoDecision]
    /\ context = [r \in Req |-> <<>>]
    /\ platformResponse = [r \in Req |-> Undefined]
    /\ processedResponse = [r \in Req |-> NoResponse]
    /\ error = [r \in Req |-> Undefined]
    /\ result = [r \in Req |-> NoResponse]
    /\ log = [r \in Req |-> <<>>]

(* Entry of processRequest: await this.initialize() when not initialized   *)
(* (initialize catches a failing contextManager.initialize and returns     *)
(* false, leaving initialized unset).                                      *)
PR_enter(r) ==
    /\ pc[r] = "processRequest"
    /\ IF initialized THEN UNCHANGED initialized
                      ELSE \E initOk \in BOOLEAN : initialized' = initOk
    /\ log' = Append1(log, r, CallEvent(options[r]))
    /\ pc' = [pc EXCEPT ![r] = "routeRequest"]
    /\ UNCHANGED <<store, userId, userInput, options, options0, routingInfo, context,
                   platformResponse, processedResponse, error, result, outsideOrch>>

(* Step 1: taskRouter.routeRequest(userInput, userId, options). *)
PR_routeRequest(r) ==
    /\ pc[r] = "routeRequest"
    /\ \E ml \in (IF classifierInitialized THEN MLOutcomes ELSE {MLNotCalled}) :
         routingInfo' = [routingInfo EXCEPT ![r] =
             taskRouter_routeRequest(userInput[r], options[r], classifierInitialized, ml,
                                     config.ML_CONFIDENCE_THRESHOLD)]
    /\ pc' = [pc EXCEPT ![r] = "getContext"]
    /\ UNCHANGED <<initialized, store, userId, userInput, options, options0, context,
                   platformResponse, processedResponse, error, result, log, outsideOrch>>

(* Step 2: await contextManager.getContext, inside the try block; a        *)
(* failing read gives an empty context.                                    *)
PR_getContext(r) ==
    /\ pc[r] = "getContext"
    /\ \E readOk \in BOOLEAN :
         LET got == getContext(getConversationHistory(store, userId[r]), readOk)
         IN IF got.thrown
              THEN /\ error' = [error EXCEPT ![r] = ContextReadFailed]
                   /\ pc' = [pc EXCEPT ![r] = "catch"]
                   /\ UNCHANGED context
              ELSE /\ context' = [context EXCEPT ![r] = got.value]
                   /\ pc' = [pc EXCEPT ![r] = "callPlatform"]
                   /\ UNCHANGED error
    /\ UNCHANGED <<initialized, store, userId, userInput, options, options0, routingInfo,
                   platformResponse, processedResponse, result, log, outsideOrch>>

(* Steps 3-6: build the prompt, look the platform module up, and either    *)
(* throw (no module) or call its generateResponse.                         *)
PR_callPlatform(r) ==
    /\ pc[r] = "callPlatform"
    /\ IF getPlatformModule(routingInfo[r].platform) = Undefined
         THEN /\ error' = [error EXCEPT ![r] = PlatformNotFound]
              /\ pc' = [pc EXCEPT ![r] = "catch"]
              /\ UNCHANGED log
         ELSE /\ log' = Append1(log, r,
                        InvokeEvent(getPlatformModule(routingInfo[r].platform),
                            enhancePromptWithThinking(
                                formatContextForPlatform(context[r], routingInfo[r].platform),
                                generateThinkingPrompts(routingInfo[r].taskType),
                                routingInfo[r].platform)))
              /\ pc' = [pc EXCEPT ![r] = "awaitPlatform"]
              /\ UNCHANGED error
    /\ UNCHANGED <<initialized, store, userId, userInput, options, options0, routingInfo, context,
                   platformResponse, processedResponse, result, outsideOrch>>

(* generateResponse resolves. *)
PR_platformResolves(r) ==
    /\ pc[r] = "awaitPlatform"
    /\ \E content \in ProviderContents :
         platformResponse' = [platformResponse EXCEPT ![r] = content]
    /\ log' = Append1(log, r, Event("resolved", log[r][Len(log[r])].platform))
    /\ pc' = [pc EXCEPT ![r] = "processResponse"]
    /\ UNCHANGED <<initialized, store, userId, userInput, options, options0, routingInfo, context,
                   processedResponse, error, result, outsideOrch>>

(* generateResponse throws. *)
PR_platformRejects(r) ==
    /\ pc[r] = "awaitPlatform"
    /\ \E msg \in ProviderErrors : error' = [error EXCEPT ![r] = msg]
    /\ log' = Append1(log, r, Event("rejected", log[r][Len(log[r])].platform))
    /\ pc' = [pc EXCEPT ![r] = "catch"]
    /\ UNCHANGED <<initialized, store, userId, userInput, options, options0, routingInfo, context,
                   platformResponse, processedResponse, result, outsideOrch>>

(* Step 7: responseSynthesizer.processResponse (it never throws). *)
PR_processResponse(r) ==
    /\ pc[r] = "processResponse"
    /\ \E synthOk \in BOOLEAN :
         processedResponse' = [processedResponse EXCEPT ![r] =
             processResponse(platformResponse[r], routingInfo[r], synthOk)]
    /\ pc' = [pc EXCEPT ![r] = "saveContext"]
    /\ UNCHANGED <<initialized, store, userId, userInput, options, options0, routingInfo, context,
                   platformResponse, error, result, log, outsideOrch>>

(* Step 8 and the return: contextManager.saveContext (a failing write is   *)
(* dropped), then the processed response is returned.                      *)
PR_saveContext(r) ==
    /\ pc[r] = "saveContext"
    /\ \E saveOk \in BOOLEAN :
         /\ store' = [store EXCEPT ![userId[r]] =
                        saveContext(@, conversationTurn(userId[r], userInput[r],
                                           processedResponse[r].content, routingInfo[r]),
                                    saveOk)]
         /\ log' = Append1(log, r, Event(IF saveOk THEN "saved" ELSE "saveFailed",
                                          routingInfo[r].platform))
    /\ result' = [result EXCEPT ![r] = processedResponse[r]]
    /\ pc' = [pc EXCEPT ![r] = "done"]
    /\ UNCHANGED <<initialized, userId, userInput, options, options0, routingInfo, context,
                   platformResponse, processedResponse, error, outsideOrch>>

(* The catch block of processRequest. *)
PR_catch(r) ==
    /\ pc[r] = "catch"
    /\ IF shouldFallback(options[r])
         THEN /\ pc' = [pc EXCEPT ![r] = "handleFallback"]
              /\ log' = Append1(log, r, Event("handleFallback", Undefined))
              /\ UNCHANGED result
         ELSE /\ result' = [result EXCEPT ![r] = errorResponse(error[r])]
              /\ pc' = [pc EXCEPT ![r] = "done"]
              /\ UNCHANGED log
    /\ UNCHANGED <<initialized, store, userId, userInput, options, options0, routingInfo, context,
                   platformResponse, processedResponse, error, outsideOrch>>

(* handleFallback: route again, pick secondary or fallback, and call       *)
(* processRequest with isFallback set and overridePlatform naming the pick. *)
HF_handleFallback(r) ==
    /\ pc[r] = "handleFallback"
    /\ \E ml \in (IF classifierInitialized THEN MLOutcomes ELSE {MLNotCalled}) :
         options' = [options EXCEPT ![r] =
             fallbackOptions(options[r],
                 taskRouter_routeRequest(userInput[r], options[r], classifierInitialized, ml,
                                         config.ML_CONFIDENCE_THRESHOLD))]
    /\ pc' = [pc EXCEPT ![r] = "processRequest"]
    /\ UNCHANGED <<initialized, store, userId, userInput, options0, routingInfo, context,
                   platformResponse, processedResponse, error, result, log, outsideOrch>>

RequestStep(r) ==
    \/ PR_enter(r) \/ PR_routeRequest(r) \/ PR_getContext(r) \/ PR_callPlatform(r)
    \/ PR_platformResolves(r) \/ PR_platformRejects(r) \/ PR_processResponse(r)
    \/ PR_saveContext(r) \/ PR_catch(r) \/ HF_handleFallback(r)

NextOrch == \E r \in Req : RequestStep(r)

SpecOrch == InitOrch /\ [][NextOrch]_vars

(***************************************************************************)
(* processRequest of an initialized OrchestrationLayer, for a user whose   *)
(* conversation history may hold an earlier turn.                          *)
(***************************************************************************)
InitOrchHistory ==
    /\ config \in {c \in Configs : ~c.ML_CONFIDENCE_THRESHOLD.defined
                                   /\ ~c.enableLocalModels /\ ~c.enableFallbackChain}
    /\ classifierInitialized = FALSE
    /\ RouterIdle
    /\ POIdle
    /\ RestIdle
    /\ initialized = TRUE
    /\ \E history \in StoredHistories :
         store = [u \in Users |-> IF u = "u1" THEN history ELSE <<>>]
    /\ pc = [r \in Req |-> IF r = 1 THEN "processRequest" ELSE "idle"]
    /\ userId = [r \in Req |-> "u1"]
    /\ \E input \in OrchInputs : userInput = [r \in Req |-> IF r = 1 THEN input ELSE <<>>]
    /\ \E o \in {x \in Options : ~x.isFallback /\ ~x.isFallbackSecondary
                                 /\ ~x.optimizeCost /\ ~x.isPremiumUser} :
         /\ options = [r \in Req |-> IF r = 1 THEN o ELSE CHOOSE x \in Options : TRUE]
         /\ options0 = options
    /\ routingInfo = [r \in Req |-> NoDecision]
    /\ context = [r \in Req |-> <<>>]
    /\ platformResponse = [r \in Req |-> Undefined]
    /\ processedResponse = [r \in Req |-> NoResponse]
    /\ error = [r \in Req |-> Undefined]
    /\ result = [r \in Req |-> NoResponse]
    /\ log = [r \in Req |-> <<>>]

SpecOrchHistory == InitOrchHistory /\ [][NextOrch]_vars

(***************************************************************************)
(* Two processRequest calls in flight at once, for different users; their  *)
(* steps interleave at every await.                                        *)
(***************************************************************************)
ConcurrentOptions ==
    {o \in Options : ~o.isFallback /\ ~o.isFallbackSecondary /\ ~o.optimizeCost
                     /\ ~o.isPremiumUser /\ o.preferredPlatform = Undefined}

(* The user of request r: the first request is u1's, the others are u2's. *)
userOf(r) == IF r = 1 THEN "u1" ELSE "u2"

InitConcurrent ==
    /\ config \in {c \in Configs : ~c.ML_CONFIDENCE_THRESHOLD.defined
                                   /\ ~c.enableLocalModels /\ ~c.enableFallbackChain}
    /\ classifierInitialized = FALSE
    /\ RouterIdle
    /\ POIdle
    /\ RestIdle
    /\ initialized \in BOOLEAN
    /\ \E h \in StoredHistories : store = [u \in Users |-> IF u = "u1" THEN h ELSE <<>>]
    /\ pc = [r \in Req |-> IF r <= 2 THEN "processRequest" ELSE "idle"]
    /\ userId = [r \in Req |-> userOf(r)]
    /\ \E in1, in2 \in OrchInputs :
         /\ in1 # in2
         /\ userInput = [r \in Req |-> IF r = 1 THEN in1 ELSE in2]
    /\ \E o1, o2 \in ConcurrentOptions :
         /\ options = [r \in Req |-> IF r = 1 THEN o1 ELSE o2]
         /\ options0 = options
    /\ routingInfo = [r \in Req |-> NoDecision]
    /\ context = [r \in Req |-> <<>>]
    /\ platformResponse = [r \in Req |-> Undefined]
    /\ processedResponse = [r \in Req |-> NoResponse]
    /\ error = [r \in Req |-> Undefined]
    /\ result = [r \in Req |-> NoResponse]
    /\ log = [r \in Req |-> <<>>]

SpecConcurrent == InitConcurrent /\ [][NextOrch]_vars

(* The history u1 has before the requests arrive. *)
EarlierHistory == CHOOSE h \in StoredHistories : h # <<>>

(* Two processRequest calls in flight at once for the same user. *)
InitSameUser ==
    /\ config \in {c \in Configs : ~c.ML_CONFIDENCE_THRESHOLD.defined
                                   /\ ~c.enableLocalModels /\ ~c.enableFallbackChain}
    /\ classifierInitialized = FALSE
    /\ RouterIdle
    /\ POIdle
    /\ RestIdle
    /\ initialized \in BOOLEAN
    /\ store = [u \in Users |-> IF u = "u1" THEN EarlierHistory ELSE <<>>]
    /\ pc = [r \in Req |-> IF r <= 2 THEN "processRequest" ELSE "idle"]
    /\ userId = [r \in Req |-> "u1"]
    /\ \E in1, in2 \in OrchInputs :
         /\ in1 # in2
         /\ userInput = [r \in Req |-> IF r = 1 THEN in1 ELSE in2]
    /\ \E o1, o2 \in ConcurrentOptions :
         /\ options = [r \in Req |-> IF r = 1 THEN o1 ELSE o2]
         /\ options0 = options
    /\ routingInfo = [r \in Req |-> NoDecision]
    /\ context = [r \in Req |-> <<>>]
    /\ platformResponse = [r \in Req |-> Undefined]
    /\ processedResponse = [r \in Req |-> NoResponse]
    /\ error = [r \in Req |-> Undefined]
    /\ result = [r \in Req |-> NoResponse]
    /\ log = [r \in Req |-> <<>>]

SpecSameUser == InitSameUser /\ [][NextOrch]_vars

(***************************************************************************)
(* PlatformOrchestrator.routeRequest and _handleFallback.                  *)
(***************************************************************************)
InitPO ==
    /\ config \in {c \in Configs : ~c.ML_CONFIDENCE_THRESHOLD.defined}
    /\ classifierInitialized = FALSE
    /\ RouterIdle
    /\ OrchIdle
    /\ RestIdle
    /\ po_pc = "routeRequest"
    /\ po_message \in POMessages
    /\ po_options \in POOptions
    /\ po_analysis = [taskType |-> Undefined, domain |-> Undefined]
    /\ po_platform = Undefined
    /\ po_attempted = <<>>
    /\ po_errorResult = NoResult
    /\ po_recommended = <<>>
    /\ po_index = 0
    /\ po_invocations = <<>>
    /\ po_result = NoResult

(* routeRequest up to the selection; a failing selection is caught and     *)
(* returned as an error result.                                            *)
PO_selectPlatform ==
    /\ po_pc = "routeRequest"
    /\ LET analysis == _analyzeRequest(po_message, po_options)
           platform == _selectPlatform(analysis.taskType, analysis.domain, po_options, config)
       IN /\ po_analysis' = analysis
          /\ IF platform = Undefined
               THEN /\ po_result' = orchestrationFailed
                    /\ po_pc' = "done"
                    /\ UNCHANGED po_platform
               ELSE /\ po_platform' = platform
                    /\ po_pc' = "process"
                    /\ UNCHANGED po_result
    /\ UNCHANGED <<po_message, po_options, po_attempted, po_errorResult, po_recommended,
                   po_index, po_invocations, outsidePO>>

(* routeRequest: the selected platform processes the request; an error     *)
(* result starts the fallback chain when the chain is enabled.             *)
PO_processWithPlatform ==
    /\ po_pc = "process"
    /\ po_invocations' = Append(po_invocations, po_platform)
    /\ \E outcome \in PlatformOutcomes :
         LET res == _processWithPlatform(po_platform, outcome) IN
         IF res.error /\ config.enableFallbackChain
           THEN /\ po_errorResult' = res
                /\ po_pc' = "handleFallback"
                /\ UNCHANGED po_result
           ELSE /\ po_result' = res
                /\ po_pc' = "done"
                /\ UNCHANGED po_errorResult
    /\ UNCHANGED <<po_message, po_options, po_analysis, po_platform, po_attempted,
                   po_recommended, po_index, outsidePO>>

(* _handleFallback, before its loops: attemptedPlatforms is the caller's   *)
(* list (or a new one) with the failed platform pushed.                    *)
PO_handleFallback ==
    /\ po_pc = "handleFallback"
    /\ po_attempted' = Append(po_options.attemptedPlatforms, po_platform)
    /\ po_recommended' = po_errorResult.fallbackRecommendation
    /\ po_index' = 1
    /\ po_pc' = "recommended"
    /\ UNCHANGED <<po_message, po_options, po_analysis, po_platform, po_errorResult,
                   po_invocations, po_result, outsidePO>>

(* One iteration of a fallback loop over list. *)
FallbackIteration(list) ==
    LET fallbackPlatform == list[po_index] IN
    /\ po_index <= Len(list)
    /\ IF canTryFallback(fallbackPlatform, po_attempted, config)
         THEN /\ po_invocations' = Append(po_invocations, fallbackPlatform)
              /\ \E outcome \in PlatformOutcomes :
                   LET res == _processWithPlatform(fallbackPlatform, outcome) IN
                   IF ~res.error
                     THEN /\ po_result' = [res EXCEPT !.fallbackFrom = po_platform]
                          /\ po_pc' = "done"
                          /\ UNCHANGED <<po_attempted, po_index>>
                     ELSE /\ po_attempted' = Append(po_attempted, fallbackPlatform)
                          /\ po_index' = po_index + 1
                          /\ UNCHANGED <<po_result, po_pc>>
         ELSE /\ po_index' = po_index + 1
              /\ UNCHANGED <<po_invocations, po_result, po_pc, po_attempted>>
    /\ UNCHANGED <<po_message, po_options, po_analysis, po_platform, po_errorResult,
                   po_recommended, outsidePO>>

(* The loop over the recommended fallbacks. *)
PO_tryRecommended ==
    /\ po_pc = "recommended"
    /\ FallbackIteration(po_recommended)

(* The recommended fallbacks are exhausted: go on with the priority list. *)
PO_recommendedDone ==
    /\ po_pc = "recommended"
    /\ po_index > Len(po_recommended)
    /\ po_analysis' = _analyzeRequest(po_message, po_options)
    /\ po_index' = 1
    /\ po_pc' = "priority"
    /\ UNCHANGED <<po_message, po_options, po_platform, po_attempted, po_errorResult,
                   po_recommended, po_invocations, po_result, outsidePO>>

(* The loop over the domain's priority list. *)
PO_tryPriority ==
    /\ po_pc = "priority"
    /\ FallbackIteration(priorityListFor(po_analysis.domain))

(* Every fallback failed: the original error with the fallback information. *)
PO_allFailed ==
    /\ po_pc = "priority"
    /\ po_index > Len(priorityListFor(po_analysis.domain))
    /\ po_result' = [po_errorResult EXCEPT !.fallbackAttempted = TRUE,
                                           !.attemptedPlatforms = po_attempted,
                                           !.message = "All platforms failed"]
    /\ po_pc' = "done"
    /\ UNCHANGED <<po_message, po_options, po_analysis, po_platform, po_attempted,
                   po_errorResult, po_recommended, po_index, po_invocations, outsidePO>>

NextPO ==
    \/ PO_selectPlatform \/ PO_processWithPlatform \/ PO_handleFallback
    \/ PO_tryRecommended \/ PO_recommendedDone \/ PO_tryPriority \/ PO_allFailed

SpecPO == InitPO /\ [][NextPO]_vars

(***************************************************************************)
(* ContextManager: a direct call of optimizeContext, or getContext.        *)
(***************************************************************************)
InitCtx ==
    /\ config \in {c \in Configs : ~c.ML_CONFIDENCE_THRESHOLD.defined
                                   /\ ~c.enableLocalModels /\ ~c.enableFallbackChain}
    /\ classifierInitialized = FALSE
    /\ RouterIdle
    /\ OrchIdle
    /\ POIdle
    /\ TEIdle
    /\ RSIdle
    /\ MPIdle
    /\ LaterIdle
    /\ cm_optimized = <<>>
    /\ cm_relevant = <<>>
    /\ cm_result = <<>>
    /\ \/ /\ cm_pc = "optimizeContext"
          /\ cm_options = NoCMOptions
          /\ cm_window \in WindowSizes
          /\ cm_history \in Histories
       \/ /\ cm_pc = "getContext"
          /\ cm_options \in CMOptions
          /\ cm_window = 0
          /\ cm_history = <<>>

(* optimizeContext(context, contextWindowSize), called directly. *)
CM_optimizeContext ==
    /\ cm_pc = "optimizeContext"
    /\ cm_result' = optimizeContext(cm_history, cm_window)
    /\ cm_pc' = "returned"
    /\ UNCHANGED <<cm_options, cm_window, cm_history, cm_optimized, cm_relevant, outsideCM>>

(* getContext: the window of the platform, and the history read from the   *)
(* vector database; a failing read is caught and gives an empty context.   *)
CM_getConversationHistory ==
    /\ cm_pc = "getContext"
    /\ cm_window' = contextWindowSizeFor(cm_options.platform)
    /\ \/ /\ \E conversationHistory \in Histories : cm_history' = conversationHistory
          /\ cm_pc' = "optimize"
          /\ UNCHANGED cm_result
       \/ /\ cm_result' = <<>>
          /\ cm_pc' = "caught"
          /\ UNCHANGED cm_history
    /\ UNCHANGED <<cm_options, cm_optimized, cm_relevant, outsideCM>>

(* getContext: the history is cut to the window; without semantic search   *)
(* (or without a user input) that is the result.                           *)
CM_optimize ==
    /\ cm_pc = "optimize"
    /\ cm_optimized' = optimizeContext(cm_history, cm_window)
    /\ IF cm_options.enableSemanticSearch /\ cm_options.hasUserInput
         THEN /\ cm_pc' = "search"
              /\ UNCHANGED cm_result
         ELSE /\ cm_result' = optimizeContext(cm_history, cm_window)
              /\ cm_pc' = "returned"
    /\ UNCHANGED <<cm_options, cm_window, cm_history, cm_relevant, outsideCM>>

(* getContext: the similar conversations found by the vector database.     *)
CM_searchSimilarConversations ==
    /\ cm_pc = "search"
    /\ \/ /\ \E relevantHistory \in RelevantHistories : cm_relevant' = relevantHistory
          /\ cm_pc' = "merge"
          /\ UNCHANGED cm_result
       \/ /\ cm_result' = <<>>
          /\ cm_pc' = "caught"
          /\ UNCHANGED cm_relevant
    /\ UNCHANGED <<cm_options, cm_window, cm_history, cm_optimized, outsideCM>>

(* getContext: merge and optimize again. *)
CM_mergeAndOptimizeContext ==
    /\ cm_pc = "merge"
    /\ cm_result' = mergeAndOptimizeContext(cm_optimized, cm_relevant, cm_window)
    /\ cm_pc' = "merged"
    /\ UNCHANGED <<cm_options, cm_window, cm_history, cm_optimized, cm_relevant, outsideCM>>

NextCtx ==
    \/ CM_optimizeContext \/ CM_getConversationHistory \/ CM_optimize
    \/ CM_searchSimilarConversations \/ CM_mergeAndOptimizeContext

SpecCtx == InitCtx /\ [][NextCtx]_vars

(***************************************************************************)
(* ThinkingEngine.enhancePromptWithThinking, applied to a base prompt and  *)
(* then to its own output.                                                 *)
(***************************************************************************)
InitThink ==
    /\ config \in {c \in Configs : ~c.ML_CONFIDENCE_THRESHOLD.defined
                                   /\ ~c.enableLocalModels /\ ~c.enableFallbackChain}
    /\ classifierInitialized = FALSE
    /\ RouterIdle
    /\ OrchIdle
    /\ POIdle
    /\ CMIdle
    /\ RSIdle
    /\ MPIdle
    /\ LaterIdle
    /\ te_pc = "start"
    /\ te_platform \in ThinkingPlatforms
    /\ te_taskType \in ThinkingTaskTypes
    /\ te_base \in BasePromptsFor(te_platform)
    /\ te_once = NoPrompt
    /\ te_twice = NoPrompt

TE_enhance ==
    /\ te_pc = "start"
    /\ te_once' = enhancePromptWithThinking(te_base, generateThinkingPrompts(te_taskType),
                                            te_platform)
    /\ te_pc' = "once"
    /\ UNCHANGED <<te_platform, te_taskType, te_base, te_twice, outsideTE>>

TE_enhanceAgain ==
    /\ te_pc = "once"
    /\ te_twice' = enhancePromptWithThinking(te_once, generateThinkingPrompts(te_taskType),
                                             te_platform)
    /\ te_pc' = "twice"
    /\ UNCHANGED <<te_platform, te_taskType, te_base, te_once, outsideTE>>

NextThink == TE_enhance \/ TE_enhanceAgain

SpecThink == InitThink /\ [][NextThink]_vars

(***************************************************************************)
(* ResponseSynthesizer: processResponse of a raw response, or              *)
(* mergeResponses of a list of processed responses.                        *)
(***************************************************************************)
InitSynth ==
    /\ config \in {c \in Configs : ~c.ML_CONFIDENCE_THRESHOLD.defined
                                   /\ ~c.enableLocalModels /\ ~c.enableFallbackChain}
    /\ classifierInitialized = FALSE
    /\ RouterIdle
    /\ OrchIdle
    /\ POIdle
    /\ CMIdle
    /\ TEIdle
    /\ MPIdle
    /\ LaterIdle
    /\ rs_extracted = JSUndefined
    /\ rs_processed = NoResponse
    /\ rs_merged = [rejected |-> FALSE, response |-> NoResponse]
    /\ \/ /\ rs_pc = "processResponse"
          /\ rs_platform \in SynthPlatforms
          /\ rs_raw \in RawResponses
          /\ rs_responses = MissingList
          /\ rs_strategy = Undefined
       \/ /\ rs_pc = "mergeResponses"
          /\ rs_platform = Undefined
          /\ rs_raw = JSUndefined
          /\ rs_responses \in MergeInputs
          /\ rs_strategy \in MergeStrategies

(* processResponse(response, {platform, taskType}, {}): the content is     *)
(* extracted and formatted as markdown; a throwing extractContent is       *)
(* caught and gives the canned response with the error field set.          *)
RS_processResponse ==
    /\ rs_pc = "processResponse"
    /\ rs_extracted' = extractContent(rs_raw, rs_platform)
    /\ rs_processed' =
         IF extractContent(rs_raw, rs_platform) = Thrown
           THEN [content |-> JSString(SynthesisErrorContent), error |-> "TypeError",
                 platform |-> rs_platform, taskType |-> "general"]
           ELSE [content |-> extractContent(rs_raw, rs_platform), error |-> Undefined,
                 platform |-> rs_platform, taskType |-> "general"]
    /\ rs_pc' = "processed"
    /\ UNCHANGED <<rs_platform, rs_raw, rs_responses, rs_strategy, rs_merged, outsideRS>>

RS_mergeResponses ==
    /\ rs_pc = "mergeResponses"
    /\ rs_merged' = mergeResponses(rs_responses, rs_strategy)
    /\ rs_pc' = "merged"
    /\ UNCHANGED <<rs_platform, rs_raw, rs_extracted, rs_processed, rs_responses,
                   rs_strategy, outsideRS>>

NextSynth == RS_processResponse \/ RS_mergeResponses

SpecSynth == InitSynth /\ [][NextSynth]_vars

(***************************************************************************)
(* OrchestrationLayer.processMultiPlatformRequest: the request is routed,  *)
(* processRequest is awaited once per named platform, in order (branch i   *)
(* is request i), and the collected responses are merged.  The layer is    *)
(* entered either through processMultiPlatformRequest or through           *)
(* processRequest directly.                                                *)
(***************************************************************************)
MultiPlatformNames == {"gemini", "perplexity"}

(* The platforms argument: up to NumReq names. *)
MultiPlatformLists ==
    UNION {[1..n -> MultiPlatformNames] : n \in 0..NumReq}

MultiOptions ==
    {o \in Options : ~o.isFallback /\ ~o.isFallbackSecondary /\ ~o.optimizeCost
                     /\ ~o.isPremiumUser}

(* The options of a branch's processRequest call. *)
branchOptions(opts, platform) ==
    [opts EXCEPT !.overridePlatform = platform, !.enableFallback = FALSE]

MultiErrorContent ==
    "I encountered an issue processing your multi-platform request. Please try again."

InitMulti ==
    /\ config \in {c \in Configs : ~c.ML_CONFIDENCE_THRESHOLD.defined
                                   /\ ~c.enableLocalModels /\ ~c.enableFallbackChain}
    /\ classifierInitialized = FALSE
    /\ RouterIdle
    /\ POIdle
    /\ CMIdle
    /\ TEIdle
    /\ RSIdle
    /\ LaterIdle
    /\ initialized \in BOOLEAN
    /\ store = [u \in Users |-> <<>>]
    /\ userId = [r \in Req |-> "u1"]
    /\ \E input \in OrchInputs : userInput = [r \in Req |-> input]
    /\ routingInfo = [r \in Req |-> NoDecision]
    /\ context = [r \in Req |-> <<>>]
    /\ platformResponse = [r \in Req |-> Undefined]
    /\ processedResponse = [r \in Req |-> NoResponse]
    /\ error = [r \in Req |-> Undefined]
    /\ result = [r \in Req |-> NoResponse]
    /\ log = [r \in Req |-> <<>>]
    /\ mp_index = 0
    /\ mp_routingInfo = NoDecision
    /\ mp_responses = <<>>
    /\ mp_result = NoResponse
    /\ \E o \in MultiOptions :
         /\ options = [r \in Req |-> o]
         /\ options0 = options
         /\ \/ /\ mp_pc = "enter"
               /\ mp_options = o
               /\ mp_platforms \in MultiPlatformLists
               /\ pc = [r \in Req |-> "idle"]
            \/ /\ mp_pc = "idle"
               /\ mp_options = CHOOSE x \in Options : TRUE
               /\ mp_platforms = <<>>
               /\ pc = [r \in Req |-> IF r = 1 THEN "processRequest" ELSE "idle"]

(* Entry: await this.initialize() when not initialized, then Step 1,       *)
(* taskRouter.routeRequest(userInput, userId, options).                    *)
MP_enter ==
    /\ mp_pc = "enter"
    /\ IF initialized THEN UNCHANGED initialized
                      ELSE \E initOk \in BOOLEAN : initialized' = initOk
    /\ \E ml \in (IF classifierInitialized THEN MLOutcomes ELSE {MLNotCalled}) :
         mp_routingInfo' =
             taskRouter_routeRequest(userInput[1], mp_options, classifierInitialized, ml,
                                     config.ML_CONFIDENCE_THRESHOLD)
    /\ mp_index' = 1
    /\ mp_pc' = "loop"
    /\ UNCHANGED <<store, pc, userId, userInput, options, options0, routingInfo, context,
                   platformResponse, processedResponse, error, result, log,
                   mp_platforms, mp_options, mp_responses, mp_result, outsideMulti>>

(* Step 2, one iteration: processRequest is called for the next platform   *)
(* with overridePlatform set to it and enableFallback false.               *)
MP_callProcessRequest ==
    /\ mp_pc = "loop"
    /\ mp_index <= Len(mp_platforms)
    /\ options' = [options EXCEPT ![mp_index] =
                      branchOptions(mp_options, mp_platforms[mp_index])]
    /\ options0' = [options0 EXCEPT ![mp_index] =
                      branchOptions(mp_options, mp_platforms[mp_index])]
    /\ pc' = [pc EXCEPT ![mp_index] = "processRequest"]
    /\ mp_pc' = "await"
    /\ UNCHANGED <<initialized, store, userId, userInput, routingInfo, context,
                   platformResponse, processedResponse, error, result, log,
                   mp_platforms, mp_options, mp_index, mp_routingInfo, mp_responses,
                   mp_result, outsideMulti>>

(* processRequest has returned: its response is pushed to                  *)
(* platformResponses.  (It returns a response on every path, so the catch  *)
(* around the call is never entered.)                                      *)
MP_pushResponse ==
    /\ mp_pc = "await"
    /\ pc[mp_index] = "done"
    /\ mp_responses' = Append(mp_responses, result[mp_index])
    /\ mp_index' = mp_index + 1
    /\ mp_pc' = "loop"
    /\ UNCHANGED <<orchVars, mp_platforms, mp_options, mp_routingInfo, mp_result, outsideMulti>>

(* Step 3 and the return: mergeResponses(platformResponses, {mergeStrategy: *)
(* options.mergeStrategy || 'task_specific', ...}); the merged response is *)
(* returned with the routing information.  A rejected merge is caught by   *)
(* the outer catch, which returns the canned error response.               *)
MP_mergeResponses ==
    /\ mp_pc = "loop"
    /\ mp_index > Len(mp_platforms)
    /\ LET merged == mergeResponses(GivenList(mp_responses), "task_specific")
       IN mp_result' = IF merged.rejected
                         THEN Processed(MultiErrorContent, Undefined, Undefined,
                                        merged.response.error)
                         ELSE merged.response
    /\ mp_pc' = "done"
    /\ UNCHANGED <<orchVars, mp_platforms, mp_options, mp_index, mp_routingInfo,
                   mp_responses, outsideMulti>>

NextMulti ==
    \/ MP_enter
    \/ MP_callProcessRequest
    \/ MP_pushResponse
    \/ MP_mergeResponses
    \/ NextOrch

SpecMulti == InitMulti /\ [][NextMulti]_vars

(***************************************************************************)
(* One generateStreamingResponse call: the request, then the events of     *)
(* the response stream.                                                    *)
(***************************************************************************)
InitStream ==
    /\ config \in {c \in Configs : ~c.ML_CONFIDENCE_THRESHOLD.defined
                                   /\ ~c.enableLocalModels /\ ~c.enableFallbackChain}
    /\ classifierInitialized = FALSE
    /\ RouterIdle
    /\ OrchIdle
    /\ POIdle
    /\ CMIdle
    /\ TEIdle
    /\ RSIdle
    /\ MPIdle
    /\ RTIdle
    /\ sr_pc = "request"
    /\ sr_onChunkGiven \in BOOLEAN
    /\ sr_pending \in Streams
    /\ sr_frames = <<>>
    /\ sr_fullResponse = <<>>
    /\ sr_calls = <<>>
    /\ sr_result = NoStreamResult

(* axios.post resolves with the stream; the handlers are registered. *)
SR_requestResolves ==
    /\ sr_pc = "request"
    /\ sr_pc' = "streaming"
    /\ UNCHANGED <<sr_onChunkGiven, sr_pending, sr_frames, sr_fullResponse, sr_calls,
                   sr_result, outsideSR>>

(* axios.post rejects: the catch block throws the enhanced error. *)
SR_requestRejects ==
    /\ sr_pc = "request"
    /\ sr_pc' = "settled"
    /\ sr_result' = StreamRejected
    /\ UNCHANGED <<sr_onChunkGiven, sr_pending, sr_frames, sr_fullResponse, sr_calls,
                   outsideSR>>

(* A 'data' event: the next chunk is handled. *)
SR_onData ==
    /\ sr_pc = "streaming"
    /\ Len(sr_pending) > 0
    /\ LET handled == onData(Head(sr_pending), 1, sr_fullResponse, sr_calls, sr_onChunkGiven)
       IN /\ sr_fullResponse' = handled.fullResponse
          /\ sr_calls' = handled.calls
    /\ sr_frames' = sr_frames \o Head(sr_pending)
    /\ sr_pending' = Tail(sr_pending)
    /\ UNCHANGED <<sr_pc, sr_onChunkGiven, sr_result, outsideSR>>

(* The 'end' event: the promise resolves with the final response. *)
SR_onEnd ==
    /\ sr_pc = "streaming"
    /\ Len(sr_pending) = 0
    /\ sr_result' = finalResponse(sr_fullResponse)
    /\ sr_pc' = "settled"
    /\ UNCHANGED <<sr_onChunkGiven, sr_pending, sr_frames, sr_fullResponse, sr_calls,
                   outsideSR>>

(* An 'error' event: the promise rejects; the rest of the stream is lost. *)
SR_onError ==
    /\ sr_pc = "streaming"
    /\ sr_result' = StreamRejected
    /\ sr_pc' = "settled"
    /\ UNCHANGED <<sr_onChunkGiven, sr_pending, sr_frames, sr_fullResponse, sr_calls,
                   outsideSR>>

NextStream ==
    SR_requestResolves \/ SR_requestRejects \/ SR_onData \/ SR_onEnd \/ SR_onError

SpecStream == InitStream /\ [][NextStream]_vars

(***************************************************************************)
(* ChatGPTConnector.processRequest, with the retry loop of                 *)
(* _executeWithRetry step by step.                                         *)
(***************************************************************************)
InitRetry ==
    /\ config \in {c \in Configs : ~c.ML_CONFIDENCE_THRESHOLD.defined /\ ~c.enableLocalModels}
    /\ classifierInitialized = FALSE
    /\ RouterIdle
    /\ OrchIdle
    /\ POIdle
    /\ CMIdle
    /\ TEIdle
    /\ RSIdle
    /\ MPIdle
    /\ SRIdle
    /\ rt_pc = "processRequest"
    /\ rt_message \in ConnectorMessages
    /\ rt_options \in ConnectorOptions
    /\ rt_attempt = 0
    /\ rt_calls = <<>>
    /\ rt_delays = <<>>
    /\ rt_error = NoError
    /\ rt_result = NoConnectorResult

(* processRequest: the message is validated and the retry loop is entered. *)
RT_processRequest ==
    /\ rt_pc = "processRequest"
    /\ IF rt_message = ""
         THEN /\ rt_error' = MessageRequired
              /\ rt_pc' = "catch"
              /\ UNCHANGED rt_attempt
         ELSE /\ rt_attempt' = 1
              /\ rt_pc' = "call"
              /\ UNCHANGED rt_error
    /\ UNCHANGED <<rt_message, rt_options, rt_calls, rt_delays, rt_result, outsideRT>>

(* await fn() returns: _executeWithRetry returns its result. *)
RT_callSucceeds ==
    /\ rt_pc = "call"
    /\ rt_calls' = Append(rt_calls, [ok |-> TRUE, err |-> NoError])
    /\ rt_result' = connectorSuccess
    /\ rt_pc' = "done"
    /\ UNCHANGED <<rt_message, rt_options, rt_attempt, rt_delays, rt_error, outsideRT>>

(* await fn() throws: the error is thrown on when it is not retryable or   *)
(* this was the last attempt, else the loop waits before the next attempt. *)
RT_callFails ==
    /\ rt_pc = "call"
    /\ \E err \in CallErrors :
         /\ rt_calls' = Append(rt_calls, [ok |-> FALSE, err |-> err])
         /\ IF ~_isRetryableError(err) \/ rt_attempt = maxRetries
              THEN /\ rt_error' = err
                   /\ rt_pc' = "catch"
                   /\ UNCHANGED rt_delays
              ELSE /\ rt_delays' = Append(rt_delays, retryWait(rt_attempt))
                   /\ rt_pc' = "wait"
                   /\ UNCHANGED rt_error
    /\ UNCHANGED <<rt_message, rt_options, rt_attempt, rt_result, outsideRT>>

(* The timer of the wait fires: the next attempt. *)
RT_retry ==
    /\ rt_pc = "wait"
    /\ rt_attempt' = rt_attempt + 1
    /\ rt_pc' = "call"
    /\ UNCHANGED <<rt_message, rt_options, rt_calls, rt_delays, rt_error, rt_result, outsideRT>>

(* The catch block of processRequest: the error result is returned. *)
RT_catch ==
    /\ rt_pc = "catch"
    /\ rt_result' = connectorErrorResult(rt_error, rt_options, config)
    /\ rt_pc' = "done"
    /\ UNCHANGED <<rt_message, rt_options, rt_attempt, rt_calls, rt_delays, rt_error, outsideRT>>

NextRetry == RT_processRequest \/ RT_callSucceeds \/ RT_callFails \/ RT_retry \/ RT_catch

SpecRetry == InitRetry /\ [][NextRetry]_vars

(***************************************************************************)
(* Properties of TaskRouter (checked under SpecRouter).                    *)
(***************************************************************************)
tr_classified == tr_pc \in {"getPlatformForTask", "return", "done"}
tr_selected == tr_pc \in {"return", "done"}

(* C6: when the learned classifier is initialized and classify throws,     *)
(* classifyTask returns what the rule engine returns on the same input.    *)
C6_ThrowFallsBackToRules ==
    (tr_classified /\ classifierInitialized /\ tr_ml.kind = "throw")
        => tr_taskType = ruleBasedClassification(tr_userInput)

(* The rules in the order the claim fixes, and what each rule tests. *)
RuleOrder ==
    <<"code", "research", "reasoning", "creative", "data_analysis", "domain_expertise">>

RuleMatches(t, input) ==
    CASE t = "code"             -> anyIncluded(input, codeKeywords) \/ matchesCodeBlockMarker(input)
      [] t = "research"         -> anyIncluded(input, researchKeywords)
      [] t = "reasoning"        -> anyIncluded(input, reasoningKeywords)
      [] t = "creative"         -> anyIncluded(input, creativeKeywords)
      [] t = "data_analysis"    -> anyIncluded(input, dataAnalysisKeywords)
      [] t = "domain_expertise" -> anyIncluded(input, domainExpertiseKeywords)

FirstMatchingRule(text) ==
    LET input == toLowerCase(text)
        hits == {i \in 1..Len(RuleOrder) : RuleMatches(RuleOrder[i], input)}
    IN IF hits = {} THEN "general"
       ELSE RuleOrder[CHOOSE i \in hits : \A j \in hits : i <= j]

tr_lowConfidence ==
    \/ ~classifierInitialized
    \/ /\ tr_ml.kind = "ok"
       /\ \/ ~config.ML_CONFIDENCE_THRESHOLD.defined
          \/ tr_ml.confidence <= config.ML_CONFIDENCE_THRESHOLD.value

(* C7: with the learned classifier uninitialized, or its confidence not    *)
(* strictly above the threshold, classifyTask returns the first matching   *)
(* rule in the order code, research, reasoning, creative, data_analysis,   *)
(* domain_expertise, and general when none matches; an input containing a  *)
(* code keyword yields code.                                               *)
C7_FirstMatchingRule ==
    (tr_classified /\ tr_lowConfidence) =>
        /\ tr_taskType = FirstMatchingRule(tr_userInput)
        /\ anyIncluded(toLowerCase(tr_userInput), codeKeywords) => tr_taskType = "code"

(* "Write a function ..." matches the code rule and the creative rule; the *)
(* classifier reported a confidence equal to the threshold.                *)
C7_Witness ==
    /\ tr_pc = "done"
    /\ classifierInitialized /\ tr_ml.kind = "ok"
    /\ config.ML_CONFIDENCE_THRESHOLD.defined
    /\ tr_ml.confidence = config.ML_CONFIDENCE_THRESHOLD.value
    /\ tr_ml.taskType = "research"
    /\ includes(toLowerCase(tr_userInput), <<"f","u","n","c","t","i","o","n">>)
    /\ includes(toLowerCase(tr_userInput), <<"w","r","i","t","e"," ","a">>)
    /\ tr_taskType = "code"

(* C8: getPlatformForTask: a preferred platform wins (verbatim, marked     *)
(* isUserPreferred) even with cost optimization requested; else cost       *)
(* optimization for a non-premium caller gives the task's fallback         *)
(* provider; else the task's triple (copilot/deepseek/local for code), an  *)
(* unknown task type resolving to the general triple.                      *)
C8_SelectionPriority ==
    tr_selected =>
        LET o == tr_options
            info == tr_platformInfo
            costCase == o.optimizeCost /\ ~o.isPremiumUser
            tripleOf(p, s, f) == info.platform = p /\ info.secondary = s /\ info.fallback = f
        IN
        /\ info.taskType = tr_taskType
        /\ o.preferredPlatform # Undefined =>
              info.platform = o.preferredPlatform /\ info.isUserPreferred
        /\ (o.preferredPlatform = Undefined /\ costCase) =>
              /\ info.platform = "local" /\ info.isCostOptimized /\ ~info.isUserPreferred
              /\ tr_taskType \in taskTypes => info.platform = platformMapping[tr_taskType].fallback
        /\ (o.preferredPlatform = Undefined /\ ~costCase) =>
              /\ ~info.isUserPreferred /\ ~info.isCostOptimized
              /\ tr_taskType \in taskTypes =>
                    tripleOf(platformMapping[tr_taskType].primary,
                             platformMapping[tr_taskType].secondary,
                             platformMapping[tr_taskType].fallback)
              /\ tr_taskType = "code" => tripleOf("copilot", "deepseek", "local")
              /\ tr_taskType \notin taskTypes => tripleOf("chatgpt", "deepseek", "local")

(* A preferred platform together with cost optimization for a non-premium  *)
(* caller: the preferred platform was returned.                            *)
C8_Witness ==
    /\ tr_pc = "done"
    /\ tr_options.preferredPlatform = "gemini"
    /\ tr_options.optimizeCost /\ ~tr_options.isPremiumUser
    /\ tr_platformInfo.platform = "gemini" /\ tr_platformInfo.isUserPreferred

(***************************************************************************)
(* Properties of OrchestrationLayer.processRequest (checked under SpecOrch).*)
(***************************************************************************)
EventsOf(r, kind) == SelectSeq(log[r], LAMBDA e : e.ev = kind)

(* The platforms whose generateResponse was invoked for request r, in order. *)
Invoked(r) == [i \in 1..Len(EventsOf(r, "invoke")) |-> EventsOf(r, "invoke")[i].platform]

(* The positions of the "call" entries, and the entries of the k-th call. *)
CallPositions(r) == {i \in 1..Len(log[r]) : log[r][i].ev = "call"}
NthCallPosition(r, k) ==
    CHOOSE i \in CallPositions(r) : Cardinality({j \in CallPositions(r) : j <= i}) = k
CallSegment(r, k) ==
    LET from == NthCallPosition(r, k)
        to == IF k < Cardinality(CallPositions(r)) THEN NthCallPosition(r, k + 1) - 1
                                                    ELSE Len(log[r])
    IN SubSeq(log[r], from, to)
CountOf(seg, kind) == Cardinality({i \in 1..Len(seg) : seg[i].ev = kind})

NoProviderSucceeded(r) == Len(EventsOf(r, "resolved")) = 0

(* C1: across one logical request, fallback hops included, no provider's   *)
(* generateResponse is invoked more than once.                             *)
C1_NoProviderInvokedTwice ==
    \A r \in Req : \A i, j \in 1..Len(Invoked(r)) :
        i # j => Invoked(r)[i] # Invoked(r)[j]

(* C2: with fallback enabled, after the primary fails the secondary is     *)
(* invoked next, after the secondary fails the fallback provider, and the  *)
(* error response comes only after all three have failed.  Stated for      *)
(* requests routed by the rules to a configured triple.                    *)
C2_SecondaryThenFallback ==
    \A r \in Req :
        LET o == options0[r]
            triple == platformMapping[ruleBasedClassification(userInput[r])]
        IN (/\ pc[r] # "idle" /\ ~classifierInitialized
            /\ o.enableFallback /\ ~o.isFallback /\ ~o.isFallbackSecondary
            /\ o.preferredPlatform = Undefined /\ ~(o.optimizeCost /\ ~o.isPremiumUser)) =>
              /\ Len(Invoked(r)) >= 1 => Invoked(r)[1] = triple.primary
              /\ Len(Invoked(r)) >= 2 => Invoked(r)[2] = triple.secondary
              /\ Len(Invoked(r)) >= 3 => Invoked(r)[3] = triple.fallback
              /\ (pc[r] = "done" /\ NoProviderSucceeded(r)) =>
                    Invoked(r) = <<triple.primary, triple.secondary, triple.fallback>>

(* C3: processRequest always ends by returning a response object (every    *)
(* unfinished request can take a step, and a finished one has a response); *)
(* when no provider attempt succeeded the response has a non-empty error   *)
(* and the fixed generic content.                                          *)
C3_AlwaysAResponse ==
    \A r \in Req :
        /\ pc[r] \notin {"idle", "done"} => ENABLED RequestStep(r)
        /\ pc[r] = "done" =>
              /\ result[r] # NoResponse
              /\ result[r].content # Undefined
              /\ NoProviderSucceeded(r) =>
                    /\ result[r].error \notin {Undefined, ""}
                    /\ result[r].content = GenericErrorContent

(* Initialization failed, the first provider call and the fallback         *)
(* attempt's provider call both failed, and the error response is returned. *)
C3_Witness ==
    /\ pc[1] = "done" /\ ~initialized
    /\ Len(EventsOf(1, "rejected")) = 2 /\ NoProviderSucceeded(1)
    /\ result[1].error \in ProviderErrors
    /\ result[1].content = GenericErrorContent

(* C4: in a processRequest call made with enableFallback false, or marked  *)
(* isFallback, a failing provider call is the only provider invocation of  *)
(* that call, handleFallback is not entered, and the call is the last one: *)
(* it returns the error response.                                          *)
C4_NoFallbackWhenDisabled ==
    \A r \in Req : \A k \in 1..Cardinality(CallPositions(r)) :
        LET seg == CallSegment(r, k)
            o == seg[1].opts
        IN ((~o.enableFallback \/ o.isFallback) /\ CountOf(seg, "rejected") > 0) =>
              /\ CountOf(seg, "invoke") = 1
              /\ CountOf(seg, "handleFallback") = 0
              /\ k = Cardinality(CallPositions(r))
              /\ pc[r] \in {"catch", "done"}
              /\ pc[r] = "done" =>
                    /\ result[r].error = error[r] /\ error[r] \in ProviderErrors
                    /\ result[r].content = GenericErrorContent

(* A fallback attempt (a call marked isFallback by handleFallback) whose   *)
(* provider call failed, and a first call with fallback disabled.          *)
C4_Witness ==
    /\ pc[1] = "done"
    /\ Cardinality(CallPositions(1)) = 2
    /\ CallSegment(1, 2)[1].opts.isFallback
    /\ CountOf(CallSegment(1, 2), "rejected") = 1
    /\ result[1].error \in ProviderErrors

C13_PromptCarriesUserInput ==
    \A r \in Req : \A i \in 1..Len(log[r]) :
        log[r][i].ev = "invoke" =>
            \E k \in 1..Len(log[r][i].prompt.messages) :
                /\ log[r][i].prompt.messages[k].role = "user"
                /\ includes(log[r][i].prompt.messages[k].content, userInput[r])

(* The read of request r's history failed: the user has stored turns and   *)
(* the context of the request is empty.                                    *)
ReadFailed(r) == pc[r] = "done" /\ store[userId[r]] # <<>> /\ context[r] = <<>>

(* C22: a ContextStore failure never aborts the response.  When reading    *)
(* the history throws, the context is empty and the provider is still      *)
(* called; when saving the turn throws, the turn is dropped and the        *)
(* request ends there, without fallback, returning the synthesized         *)
(* response as it is, no error field added.                                *)
C22_ContextStoreFailureTolerated ==
    \A r \in Req :
        /\ (ReadFailed(r) /\ getPlatformModule(routingInfo[r].platform) # Undefined)
               => Len(EventsOf(r, "invoke")) > 0
        /\ \A i \in 1..Len(log[r]) :
               log[r][i].ev = "saveFailed" =>
                   /\ i = Len(log[r])
                   /\ pc[r] = "done"
                   /\ result[r] = processedResponse[r]
                   /\ processedResponse[r].content = platformResponse[r]
                          => result[r].error = Undefined
                   /\ store[userId[r]] \in StoredHistories

C22_Witness ==
    /\ ReadFailed(1)
    /\ log[1][Len(log[1])].ev = "saveFailed"
    /\ Len(EventsOf(1, "invoke")) = 1
    /\ result[1].error = Undefined

(* The positions of request r's log where saveContext was called. *)
SavePositions(r) == {i \in 1..Len(log[r]) : log[r][i].ev \in {"saved", "saveFailed"}}

(* C23: within one processRequest, fallback hops included, saveContext is  *)
(* called at most once, only directly after a provider call has returned   *)
(* and its response has been synthesized, and never when every provider    *)
(* attempt failed; failed attempts leave the stored conversation as it     *)
(* was, so the user's history holds exactly the turns of successful saves. *)
C23_SaveOnlyAfterSynthesis ==
    \A r \in Req :
        /\ Cardinality(SavePositions(r)) <= 1
        /\ \A i \in SavePositions(r) :
               /\ i > 1
               /\ log[r][i - 1].ev = "resolved"
               /\ processedResponse[r] # NoResponse
               /\ processedResponse[r].platform = log[r][i - 1].platform
        /\ Len(EventsOf(r, "resolved")) = 0 => SavePositions(r) = {}
        /\ r = 1 => Len(store[userId[r]]) = Len(EventsOf(r, "saved"))

C23_Witness ==
    /\ pc[1] = "done"
    /\ Len(EventsOf(1, "rejected")) = 1
    /\ Len(EventsOf(1, "handleFallback")) = 1
    /\ Len(EventsOf(1, "saved")) = 1
    /\ Len(store["u1"]) = 1

(* The turns request r may have saved: none, or one built from its own     *)
(* input, its own routing decision and its own synthesized response.       *)
OwnTurns(r) ==
    IF Len(EventsOf(r, "saved")) = 0 THEN <<>>
    ELSE <<conversationTurn(userOf(r), userInput[r], processedResponse[r].content,
                            routingInfo[r])>>

TurnOf(r) ==
    conversationTurn("u1", userInput[r], processedResponse[r].content, routingInfo[r])

(* The requests that have saved their turn. *)
SavedRequests == {r \in 1..2 : Len(EventsOf(r, "saved")) = 1}

(* C25: when two successful processRequest calls of one user overlap, each *)
(* appends exactly one new turn and no turn stored before is modified or   *)
(* removed: the history is the earlier history followed by the turns of    *)
(* the requests that have saved, in either order.                          *)
C25_ConcurrentAppendsKeepHistory ==
    LET history == store["u1"]
        new == SubSeq(history, Len(EarlierHistory) + 1, Len(history))
    IN /\ Len(history) = Len(EarlierHistory) + Cardinality(SavedRequests)
       /\ SubSeq(history, 1, Len(EarlierHistory)) = EarlierHistory
       /\ {new[i] : i \in 1..Len(new)} = {TurnOf(r) : r \in SavedRequests}

(* Both requests had read the history before either saved, and both saved. *)
C25_Witness ==
    /\ SavedRequests = {1, 2}
    /\ context[1] = EarlierHistory /\ context[2] = EarlierHistory
    /\ store["u1"][Len(EarlierHistory) + 1] = TurnOf(2)

(* C29: processRequest saves a turn only when the response it returns has  *)
(* no error field: a request that has saved its turn returns a response    *)
(* without error, and no stored turn carries the canned synthesis-failure  *)
(* message as its aiResponse.                                              *)
C29_NoErrorResponseSaved ==
    /\ \A r \in Req :
         (pc[r] = "done" /\ Len(EventsOf(r, "saved")) = 1)
            => result[r].error = Undefined
    /\ \A u \in DOMAIN store : \A i \in 1..Len(store[u]) :
         store[u][i].aiResponse # SynthesisErrorContent

(***************************************************************************)
(* Properties of PlatformOrchestrator (SpecPO).                            *)
(***************************************************************************)
NoDuplicates(s) == \A i, j \in 1..Len(s) : s[i] = s[j] => i = j

(* C5: during one PlatformOrchestrator.routeRequest started without        *)
(* caller-supplied attemptedPlatforms, the attemptedPlatforms list never   *)
(* contains a duplicate, no platform's processRequest is invoked more than *)
(* once (initial selection, recommended fallbacks and priority-list        *)
(* fallbacks together), and the chain ends after at most as many platform  *)
(* invocations as there are registered platforms.                          *)
C5_NoDuplicateAttempts ==
    po_options.attemptedPlatforms = <<>> =>
        /\ NoDuplicates(po_attempted)
        /\ NoDuplicates(po_result.attemptedPlatforms)
        /\ NoDuplicates(po_invocations)
        /\ Len(po_invocations) <= Cardinality(platforms)

(* A chain without caller-supplied attemptedPlatforms, whose recommended   *)
(* fallbacks name a platform twice, has invoked every registered platform  *)
(* and ended with 'All platforms failed'.                                  *)
C5_Witness ==
    /\ po_options.attemptedPlatforms = <<>>
    /\ po_recommended = <<"local", "gemini", "gemini">>
    /\ po_pc = "done"
    /\ po_result.fallbackAttempted
    /\ Len(po_invocations) = Cardinality(platforms)
    /\ Len(po_result.attemptedPlatforms) = Cardinality(platforms)

Qualifies(p) ==
    /\ p \in platforms
    /\ ~InSeq(p, po_options.attemptedPlatforms)
    /\ (p = "local" => config.enableLocalModels)

QualifyingPositions ==
    {i \in 1..Len(priorityListFor(po_analysis.domain)) :
        Qualifies(priorityListFor(po_analysis.domain)[i])}

(* C10: without an explicit platform override, _selectPlatform returns the *)
(* first platform of the domain's priority list that is registered, is not *)
(* in options.attemptedPlatforms and, if it is 'local', has the            *)
(* enableLocalModels flag on; when no platform qualifies, selection fails  *)
(* and routeRequest returns an error result without invoking any platform. *)
C10_FirstQualifyingPlatform ==
    (po_pc # "routeRequest" /\ po_options.platform = Undefined) =>
        IF QualifyingPositions = {}
          THEN /\ po_pc = "done"
               /\ po_platform = Undefined
               /\ po_result.error
               /\ po_result.message = "Platform orchestration failed"
               /\ po_invocations = <<>>
          ELSE /\ \E i \in QualifyingPositions :
                    /\ \A j \in QualifyingPositions : i <= j
                    /\ po_platform = priorityListFor(po_analysis.domain)[i]
               /\ (po_invocations # <<>> => po_invocations[1] = po_platform)

(* Selection has failed because every platform but 'local' was attempted   *)
(* and local models are switched off.                                      *)
C10_Witness ==
    /\ po_options.platform = Undefined
    /\ ~config.enableLocalModels
    /\ Len(po_options.attemptedPlatforms) = Cardinality(platforms) - 1
    /\ po_pc = "done"
    /\ po_result.message = "Platform orchestration failed"
    /\ po_invocations = <<>>

(* Selection has skipped attempted platforms: the selected platform is not *)
(* the head of the priority list.                                          *)
C10_WitnessSkip ==
    /\ po_options.platform = Undefined
    /\ po_options.attemptedPlatforms = <<"chatgpt">>
    /\ po_platform # Undefined
    /\ po_platform # priorityListFor(po_analysis.domain)[1]

(* The registered provider a recommended name stands for. *)
ProviderNamed(name) ==
    CASE name = "Gemini" -> "gemini"
      [] name = "DeepSeek" -> "deepseek"
      [] name = "Perplexity" -> "perplexity"
      [] OTHER -> name

(* The recommendations the ChatGPT connector reports. *)
ConnectorRecommendations == {_suggestFallbackPlatform(e) : e \in CallErrors}

(* The recommended platforms that are available and not yet attempted when *)
(* the fallback chain starts, in their listed order.                       *)
EligibleRecommended ==
    SelectSeq([i \in 1..Len(po_recommended) |-> ProviderNamed(po_recommended[i])],
              LAMBDA p : /\ _isPlatformAvailable(p, config)
                         /\ ~InSeq(p, po_options.attemptedPlatforms)
                         /\ p # po_platform)

(* C28: when the ChatGPT connector fails and reports a recommendation, the *)
(* fallback chain tries the recommended platforms that are available and   *)
(* not yet attempted, in their listed order, before any platform of the    *)
(* domain's priority list.                                                 *)
C28_RecommendedFallbacksFirst ==
    (/\ po_pc \in {"recommended", "priority", "done"}
     /\ po_platform = "chatgpt"
     /\ po_errorResult.platform = "ChatGPT"
     /\ po_recommended \in ConnectorRecommendations)
        => \A i \in 1..Len(EligibleRecommended) :
               i + 1 <= Len(po_invocations) => po_invocations[i + 1] = EligibleRecommended[i]

(* C30: every platform routeRequest dispatches to, an explicit             *)
(* options.platform override included, satisfies the availability rule:    *)
(* it is never 'local' while enableLocalModels is off and never a platform *)
(* listed in options.attemptedPlatforms.                                   *)
C30_DispatchedPlatformsAvailable ==
    \A i \in 1..Len(po_invocations) :
        /\ _isPlatformAvailable(po_invocations[i], config)
        /\ ~InSeq(po_invocations[i], po_options.attemptedPlatforms)

(***************************************************************************)
(* Properties of ContextManager (SpecCtx).                                 *)
(***************************************************************************)
RECURSIVE SumTokens(_)
SumTokens(turns) ==
    IF turns = <<>> THEN 0
    ELSE estimateTokens(turns[1].userInput) + estimateTokens(turns[1].aiResponse)
         + SumTokens(Tail(turns))

(* output is the longest suffix of input whose estimate is within 0.9 of   *)
(* the window (estimates and limit in tenths of a token).                  *)
IsMaximalSuffix(output, input, window) ==
    LET dropped == Len(input) - Len(output) IN
    /\ dropped >= 0
    /\ output = SubSeq(input, dropped + 1, Len(input))
    /\ SumTokens(output) <= window * 9
    /\ \/ dropped = 0
       \/ SumTokens(output) + SumTokens(<<input[dropped]>>) > window * 9

(* C11: for any list of turns and any window size, optimizeContext returns *)
(* a contiguous suffix of the input in unchanged chronological order whose *)
(* cumulative token estimate is at most 0.9 x contextWindowSize, and the   *)
(* suffix is maximal: it is the whole input, or adding the next older turn *)
(* would exceed the bound.                                                 *)
C11_OptimizeContextMaximalSuffix ==
    /\ (cm_pc = "returned" /\ cm_options = NoCMOptions /\ cm_optimized = <<>>) =>
           IsMaximalSuffix(cm_result, cm_history, cm_window)
    /\ cm_pc \in {"search", "merge", "merged"} =>
           IsMaximalSuffix(cm_optimized, cm_history, cm_window)

(* optimizeContext has dropped the oldest turn and kept the two after it. *)
C11_Witness ==
    /\ cm_pc = "returned"
    /\ cm_options = NoCMOptions
    /\ Len(cm_history) = 3
    /\ Len(cm_result) = 2
    /\ cm_window = 24

(* C12: when semantic search is enabled and the merged context exceeds the *)
(* budget, getContext drops the oldest turns first: the recent             *)
(* conversation turns are the last to be dropped, so a result that keeps a *)
(* retrieved historical turn keeps every recent turn.                      *)
C12_RecentTurnsDroppedLast ==
    (cm_pc = "merged" /\ Len(cm_relevant) > 0 /\ Len(cm_result) > 0) =>
        Len(cm_result) = Len(cm_optimized) + 1 + Len(cm_relevant)

(***************************************************************************)
(* Properties of ThinkingEngine (SpecThink).                               *)
(***************************************************************************)
CountOccurrences(s, sub) ==
    Cardinality({i \in 1..(Len(s) - Len(sub) + 1) : SubSeq(s, i, i + Len(sub) - 1) = sub})

MessagesWithRole(prompt, role) ==
    {i \in 1..Len(prompt.messages) : prompt.messages[i].role = role}

EndsWith(s, suffix) ==
    Len(s) >= Len(suffix) /\ SubSeq(s, Len(s) - Len(suffix) + 1, Len(s)) = suffix

te_thinkingPrompts == generateThinkingPrompts(te_taskType)

(* C14: applying enhancePromptWithThinking twice with the same thinking    *)
(* spec (the second time to the output of the first) does not duplicate    *)
(* the injected system instruction: the system message of the result       *)
(* contains the thinking system prompt exactly once.                       *)
C14_EnhanceTwiceNoDuplicate ==
    te_pc = "twice" =>
        \E i \in MessagesWithRole(te_twice, "system") :
            /\ \A j \in MessagesWithRole(te_twice, "system") : i <= j
            /\ CountOccurrences(te_twice.messages[i].content,
                                te_thinkingPrompts.systemPrompt) = 1

(* C15: for every base prompt, enhancePromptWithThinking yields a prompt   *)
(* that has a system message carrying the thinking instruction and a       *)
(* user-role message carrying the reasoning-phase instructions appended to *)
(* the last user message: a missing system message is created, a missing   *)
(* user message is created, and when a system message already exists no    *)
(* additional system message is added.                                     *)
C15_EnhanceCreatesMissingMessages ==
    te_pc = "once" =>
        /\ \E i \in MessagesWithRole(te_once, "system") :
               includes(te_once.messages[i].content, te_thinkingPrompts.systemPrompt)
        /\ \E i \in MessagesWithRole(te_once, "user") :
               /\ \A j \in MessagesWithRole(te_once, "user") : j <= i
               /\ EndsWith(te_once.messages[i].content,
                           generateThinkingInstructions(te_thinkingPrompts))
        /\ Cardinality(MessagesWithRole(te_once, "system")) =
               IF MessagesWithRole(te_base, "system") = {} THEN 1
               ELSE Cardinality(MessagesWithRole(te_base, "system"))

(***************************************************************************)
(* Properties of ResponseSynthesizer (SpecSynth).                          *)
(***************************************************************************)
(* The raw response has the shape the platform's extractor reads. *)
HasExpectedShape(response, platform) ==
    CASE platform \in {"chatgpt", "copilot", "deepseek"} ->
           /\ response.t = "object" /\ "choices" \in DOMAIN response.f
           /\ response.f.choices.t = "array" /\ Len(response.f.choices.e) > 0
           /\ response.f.choices.e[1].t = "object"
           /\ "message" \in DOMAIN response.f.choices.e[1].f
      [] platform = "gemini" ->
           /\ response.t = "object" /\ "candidates" \in DOMAIN response.f
           /\ response.f.candidates.t = "array" /\ Len(response.f.candidates.e) > 0
           /\ response.f.candidates.e[1].t = "object"
           /\ "content" \in DOMAIN response.f.candidates.e[1].f
      [] platform = "perplexity" -> response.t = "object" /\ "answer" \in DOMAIN response.f
      [] platform = "grok3" ->
           /\ response.t = "object" /\ "output" \in DOMAIN response.f
           /\ response.f.output.t = "object"
      [] platform = "vertix" -> response.t = "object" /\ "content" \in DOMAIN response.f
      [] platform = "local" -> response.t = "object" /\ "output" \in DOMAIN response.f
      [] OTHER -> FALSE

(* C16: extractContent never throws: for every raw response whose          *)
(* structure does not match the platform's expected shape (a null response *)
(* and a non-empty choices/candidates array whose first element lacks the  *)
(* nested message/content included) it returns the raw response            *)
(* stringified, so processResponse gives no error response for a malformed *)
(* payload.                                                                *)
C16_ExtractContentNeverThrows ==
    rs_pc = "processed" =>
        /\ rs_extracted # Thrown
        /\ ~HasExpectedShape(rs_raw, rs_platform) =>
               /\ rs_extracted = (IF rs_raw.t = "string" THEN rs_raw
                                  ELSE [t |-> "string", v |-> "JSON.stringify", of |-> rs_raw])
               /\ rs_processed.error = Undefined

(* C17: mergeResponses never throws: a single-element list returns that    *)
(* element unchanged, and any merge failure (an empty or a missing         *)
(* response list included) yields one canned ProcessedResponse with        *)
(* platform 'merged' and a populated error field.                          *)
C17_MergeResponsesNeverThrows ==
    rs_pc = "merged" =>
        /\ ~rs_merged.rejected
        /\ (~rs_responses.missing /\ Len(rs_responses.list) = 1) =>
               rs_merged.response = rs_responses.list[1]
        /\ (rs_responses.missing \/ Len(rs_responses.list) = 0) =>
               /\ rs_merged.response.platform = "merged"
               /\ Truthy(rs_merged.response.error)

(***************************************************************************)
(* Properties of processMultiPlatformRequest (SpecMulti).                  *)
(***************************************************************************)
Branches == 1..Len(mp_platforms)

(* The provider call of branch r succeeded: generateResponse resolved. *)
ProviderCallSucceeded(r) == Len(EventsOf(r, "resolved")) > 0

(* C18: a branch whose provider call fails is skipped: the list handed to  *)
(* mergeResponses holds only responses of branches that succeeded (none    *)
(* carries an error field), so its length is the number of successful      *)
(* branches.                                                               *)
C18_FailedBranchesSkipped ==
    mp_pc = "done" =>
        /\ \A i \in 1..Len(mp_responses) : mp_responses[i].error = Undefined
        /\ Len(mp_responses) = Cardinality({r \in Branches : ProviderCallSucceeded(r)})

(* C19: for each name p of the platforms argument, the branch for p        *)
(* invokes provider p and no other provider, and runs no fallback.         *)
C19_BranchInvokesNamedPlatform ==
    mp_pc = "done" =>
        \A r \in Branches :
            /\ Invoked(r) = <<mp_platforms[r]>>
            /\ Len(EventsOf(r, "handleFallback")) = 0

(* C20: when every branch fails, for any number of named platforms (two or *)
(* more included), the call returns a single canned error response whose   *)
(* error field is populated.                                               *)
C20_AllBranchesFailGivesError ==
    (/\ mp_pc = "done"
     /\ Len(mp_platforms) > 0
     /\ \A r \in Branches : ~ProviderCallSucceeded(r))
        => Truthy(mp_result.error)

(* C21: processMultiPlatformRequest starts all its platform branches       *)
(* concurrently: no branch has completed while a sibling branch has not    *)
(* been started yet.                                                       *)
C21_BranchesStartedConcurrently ==
    \A r \in Branches :
        pc[r] = "done" => \A q \in Branches : pc[q] # "idle"

(***************************************************************************)
(* Properties of generateStreamingResponse (SpecStream).                   *)
(***************************************************************************)
(* The fragments of the content-bearing frames of a sequence of lines. *)
RECURSIVE Fragments(_)
Fragments(lines) ==
    IF lines = <<>> THEN <<>>
    ELSE (IF isContentBearing(Head(lines)) THEN <<Head(lines).choices[1]>> ELSE <<>>)
         \o Fragments(Tail(lines))

RECURSIVE Concat(_)
Concat(fragments) ==
    IF fragments = <<>> THEN <<>> ELSE Head(fragments) \o Concat(Tail(fragments))

(* C26: generateStreamingResponse resolves only when the stream has ended  *)
(* and rejects only on an error; onChunk is called once per                *)
(* content-bearing frame that has arrived, in arrival order; the content   *)
(* of the resolved response is the concatenation of the fragments passed   *)
(* to onChunk, and its usage counters are -1.                              *)
C26_StreamingCallbackPerFrame ==
    sr_onChunkGiven =>
        /\ sr_calls = Fragments(sr_frames)
        /\ sr_result.state = "resolved" =>
               /\ sr_pending = <<>>
               /\ sr_result.content = Concat(sr_calls)
               /\ sr_result.usage.prompt_tokens = -1
               /\ sr_result.usage.completion_tokens = -1
               /\ sr_result.usage.total_tokens = -1

(***************************************************************************)
(* Properties of ChatGPTConnector (SpecRetry).                             *)
(***************************************************************************)
(* C27: _executeWithRetry calls the request function at most maxRetries    *)
(* times and stops at the first success; every call that was followed by   *)
(* another one failed with status 429 or 5xx, and the wait before retry k  *)
(* is retryDelay * 2^(k-1); a failure that is not retryable is the last    *)
(* call; and processRequest never throws: a surfaced failure becomes an    *)
(* error result carrying its message.                                      *)
C27_BoundedRetryWithBackoff ==
    /\ Len(rt_calls) <= maxRetries
    /\ \A k \in 1..Len(rt_calls) :
           k < Len(rt_calls) =>
               /\ ~rt_calls[k].ok
               /\ rt_calls[k].err.status = 429
                  \/ rt_calls[k].err.status \in 500..599
    /\ \A k \in 1..Len(rt_calls) :
           (~rt_calls[k].ok /\ rt_calls[k].err.status # 429
                            /\ rt_calls[k].err.status \notin 500..599)
               => (k = Len(rt_calls) /\ rt_pc \in {"catch", "done"})
    /\ \A k \in 1..Len(rt_delays) : rt_delays[k] = retryDelay * 2 ^ (k - 1)
    /\ Len(rt_delays) <= Len(rt_calls)
    /\ rt_pc = "call" => Len(rt_delays) = Len(rt_calls)
    /\ rt_pc = "done" =>
           IF Len(rt_calls) > 0 /\ rt_calls[Len(rt_calls)].ok
             THEN ~rt_result.error
             ELSE /\ rt_result.error
                  /\ rt_result.message = rt_error.message
                  /\ rt_error # NoError

(* Two retryable failures, then a failure that is not retryable. *)
C27_Witness ==
    /\ rt_pc = "done"
    /\ Len(rt_calls) = 3
    /\ rt_delays = <<1000, 2000>>
    /\ rt_calls[3].err.status = 400
    /\ rt_result.error
====
